---- MODULE Spec2Model ----
(***************************************************************************)
(* Appointment-notification service: status classifier, reconciler,       *)
(* reminder matcher, delivery dispatcher, paginated cycle driver and the   *)
(* "processed" ledger (main.py, sender.py, storage.py, scheduler.py).      *)
(*                                                                         *)
(* Conventions for Python values:                                          *)
(*   - a date text "YYYY-MM-DD" is 1..MaxDate, the empty text is 0         *)
(*   - a time text "HH:MM" or "HH:MM:SS" is the tuple of its fields        *)
(*     <<hh, mm>> or <<hh, mm, ss>>; the empty text is << >>.  text[:5] is  *)
(*     the first two fields.  A TIME column value always has three fields. *)
(*   - None (SQL NULL) is NULO in a date or type, HORA_NULA in a time      *)
(*   - a text (status, phone) is a sequence of tokens / characters         *)
(***************************************************************************)
EXTENDS Integers, Sequences, FiniteSets, TLC

VARIABLES
    ledger,     \* table "processed": [<<id, tipo>> -> row]
    ag,         \* the appointment snapshot the source currently returns for that id
    ev,         \* what the driver did with the last record it handled
    envio,      \* dispatcher alone: the call being made and its result
    pag,        \* pagination loop alone: page index, fetched pages, position
    hist,       \* how far the appointment went through confirmation, cancellation,
                \* reactivation and second cancellation (0..4)
    lembretes_ok, \* per reminder variant, how many dispatches returned true
    entregue,   \* the snapshot of the last delivered confirmation-class notice,
                \* and how many cancellation notices were delivered since the
                \* last delivered reactivation
    tabela,     \* table "processed" as the sequence of its rows
    drv,        \* the drivers that run against the ledger, each with its
                \* position in the handling of the record and what it read
    lista,      \* the record loop of one page of a reconciliation pass: how
                \* far it went and the counters of the pass
    modelos     \* the reminder variants whose template name is set in the
                \* environment of the process

vars == <<ledger, ag, ev, envio, pag, hist, lembretes_ok, entregue, tabela, drv, lista, modelos>>

----------------------------------------------------------------------------
(* Bounds of the model *)

MaxDate == 2

\* pages a source describes: reported page counts and pages with records
MaxPaginas == 2

\* the count of delivered reminders of one variant stops at this value
MaxContagem == 2

\* how many page indices past LIMITE_PAGINAS are told apart; of the indices
\* beyond, which the loop treats alike, only the parity is kept
MaxExcesso == 1

\* the largest value of SENDER_MAX_RETRIES the dispatcher is run with
MaxTentativas == 3

\* how many statements the clock of the store is followed for
MaxRelogio == 3

\* how many drivers at most run against the same ledger
MaxDrivers == 2

\* how many records at most the page of a pass holds
MaxRegistros == 2

(* Program constants *)

MAX_RETRIES == 3

ID_TIPO_CONSULTA == 113784

\* main.py line 927: the page index past which a failing pass gives up
LIMITE_PAGINAS == 100

----------------------------------------------------------------------------
(* Value domains *)

AG_ID == 101

\* init_db.py line 104: the executor whose records the seeding leaves out
EXECUTOR_BLOQUEADO == 21430526

Datas == 0..MaxDate

HoraTextos == { <<>>, <<10, 0>>, <<10, 0, 30>>, <<10, 30>> }

\* Python None / SQL NULL in a date, time or type position
NULO == -1

HORA_NULA == <<NULO>>

\* idTipoConsulta of a snapshot (None when the source sends none)
TiposConsulta == {NULO, ID_TIPO_CONSULTA, ID_TIPO_CONSULTA + 1}

CANCELAMENTO_KEYWORD == "CANCELADO"

CONFIRMADO_KEYWORD == "CONFIRMADO"

StatusTextos ==
    { <<>>,
      <<"CONFIRMADO">>,
      <<"Cancelado">>,
      <<"AGENDADO">>,
      <<"RE", "CONFIRMADO", " APOS ", "CANCELADO">> }

NUMERO_TESTE == <<"9","2","9","8","4","5","3","2","2","7","3">>

Telefones ==
    { <<>>,
      <<"+","5","5"," ","9","2"," ","9","8","4","5","3","-","2","2","7","3">>,
      <<"1","1","9","8","7","6","5","4","3","2","1">> }

\* the "procedimentos" list of a snapshot: the names of its procedures
Procedimentos ==
    { << <<"Consulta">> >>,
      << <<"Laser ", "Duoglide">> >>,
      << <<"USG", " de ", "Abdômen">> >>,
      << <<"Consulta">>, <<"Depilação a Laser">> >>,
      << <<"Depilação a Laser">>, <<"Laser ", "DUOGLIDE">> >> }

Ids == {AG_ID}

Tipos ==
    {"agendamento", "cancelamento",
     "lembrete_duoglide", "lembrete_usg", "lembrete_depilacao", "lembrete_padrao"}

----------------------------------------------------------------------------
(* Text helpers *)

Digitos == {"0","1","2","3","4","5","6","7","8","9"}

isdigit(c) == c \in Digitos

\* str.upper() on a text made of tokens
upper(s) ==
    [i \in 1..Len(s) |->
        CASE s[i] = "Cancelado"  -> "CANCELADO"
          [] s[i] = "cancelado"  -> "CANCELADO"
          [] s[i] = "Confirmado" -> "CONFIRMADO"
          [] s[i] = "confirmado" -> "CONFIRMADO"
          [] OTHER               -> s[i]]

\* str.lower() on a text made of tokens
lower(s) ==
    [i \in 1..Len(s) |->
        CASE s[i] = "Duoglide"          -> "duoglide"
          [] s[i] = "DUOGLIDE"          -> "duoglide"
          [] s[i] = "USG"               -> "usg"
          [] s[i] = "Abdomen"           -> "abdomen"
          [] s[i] = "Abdômen"           -> "abdômen"
          [] s[i] = "Depilação a Laser" -> "depilação a laser"
          [] OTHER                      -> s[i]]

\* keyword in text (substring containment)
contem(keyword, s) == \E i \in 1..Len(s) : s[i] = keyword

\* text[:5] of a time text, and of str() of a TIME value
hhmm(h) == IF Len(h) >= 2 THEN SubSeq(h, 1, 2) ELSE h

----------------------------------------------------------------------------
(* storage.py: the table "processed", primary key (id, tipo), columns      *)
(* data_agenda DATE, hora_agenda TIME, id_tipo_consulta                     *)

SemLinha == [existe |-> FALSE, data |-> NULO, hora |-> HORA_NULA, tc |-> NULO]

\* a DATE column takes NULL or a date text; the empty text is a syntax error
data_aceita(d) == d = NULO \/ d >= 1

\* a TIME column takes NULL or a time text; the empty text is a syntax error
hora_aceita(h) == h = HORA_NULA \/ Len(h) >= 2

\* what a TIME column holds after a time text is written to it
para_TIME(h) == IF h # HORA_NULA /\ Len(h) = 2 THEN h \o <<0>> ELSE h

is_processed(l, item_id, tipo) == l[<<item_id, tipo>>].existe

\* INSERT ... ON CONFLICT (id, tipo) DO UPDATE SET data_agenda, hora_agenda
mark_processed(l, item_id, tipo, data_agenda, hora_agenda) ==
    [l EXCEPT ![<<item_id, tipo>>] =
        [@ EXCEPT !.existe = TRUE,
                  !.data = data_agenda,
                  !.hora = para_TIME(hora_agenda)]]

\* the statement fails (and mark_processed re-raises) on a value the column rejects
mark_processed_raises(data_agenda, hora_agenda) ==
    ~data_aceita(data_agenda) \/ ~hora_aceita(hora_agenda)

get_processed_data(l, item_id, tipo) ==
    IF l[<<item_id, tipo>>].existe
    THEN <<l[<<item_id, tipo>>].data, l[<<item_id, tipo>>].hora>>
    ELSE <<NULO, HORA_NULA>>

(* The storage revision main.py is written against: mark_processed takes    *)
(* id_tipo_consulta, get_processed_data returns it as a third value, and    *)
(* clear_processed deletes a row.                                           *)

mark_processed_tc(l, item_id, tipo, data_agenda, hora_agenda, id_tipo_consulta) ==
    [mark_processed(l, item_id, tipo, data_agenda, hora_agenda)
        EXCEPT ![<<item_id, tipo>>].tc = id_tipo_consulta]

get_processed_tc(l, item_id, tipo) ==
    IF l[<<item_id, tipo>>].existe THEN l[<<item_id, tipo>>].tc ELSE NULO

clear_processed(l, item_id, tipo) == [l EXCEPT ![<<item_id, tipo>>] = SemLinha]

(* The same table as the sequence of its rows, in insertion order *)

chave(r) == <<r.id, r.tipo>>

\* the rows of t that conflict with (item_id, tipo) on processed_pkey
em_conflito(t, item_id, tipo) ==
    {i \in 1..Len(t) : chave(t[i]) = <<item_id, tipo>>}

\* as mark_processed_linhas, the statement being a plain INSERT on a table
\* without the key
mark_processed_linhas_sem_chave(t, item_id, tipo, data_agenda, hora_agenda) ==
    Append(t, [id |-> item_id, tipo |-> tipo, data |-> data_agenda,
               hora |-> para_TIME(hora_agenda)])

\* INSERT INTO processed ... ON CONFLICT (id, tipo) DO UPDATE SET
\* data_agenda = EXCLUDED.data_agenda, hora_agenda = EXCLUDED.hora_agenda
mark_processed_linhas(t, item_id, tipo, data_agenda, hora_agenda) ==
    IF em_conflito(t, item_id, tipo) # {}
    THEN [i \in 1..Len(t) |->
            IF i \in em_conflito(t, item_id, tipo)
            THEN [t[i] EXCEPT !.data = data_agenda, !.hora = para_TIME(hora_agenda)]
            ELSE t[i]]
    ELSE Append(t, [id |-> item_id, tipo |-> tipo, data |-> data_agenda,
                    hora |-> para_TIME(hora_agenda)])

\* as upsert, the conflicting row getting a new creation time as well
upsert_renova_criacao(t, item_id, tipo, data_agenda, hora_agenda, agora) ==
    IF em_conflito(t, item_id, tipo) # {}
    THEN [i \in 1..Len(t) |->
            IF i \in em_conflito(t, item_id, tipo)
            THEN [t[i] EXCEPT !.data = data_agenda, !.hora = para_TIME(hora_agenda),
                              !.criado_em = agora]
            ELSE t[i]]
    ELSE Append(t, [id |-> item_id, tipo |-> tipo, data |-> data_agenda,
                    hora |-> para_TIME(hora_agenda), criado_em |-> agora])

\* storage.py lines 55-63 and 151-158: the same statement on the table with
\* its column criado_em TIMESTAMP DEFAULT CURRENT_TIMESTAMP, run at agora
upsert(t, item_id, tipo, data_agenda, hora_agenda, agora) ==
    IF em_conflito(t, item_id, tipo) # {}
    THEN [i \in 1..Len(t) |->
            IF i \in em_conflito(t, item_id, tipo)
            THEN [t[i] EXCEPT !.data = data_agenda, !.hora = para_TIME(hora_agenda)]
            ELSE t[i]]
    ELSE Append(t, [id |-> item_id, tipo |-> tipo, data |-> data_agenda,
                    hora |-> para_TIME(hora_agenda), criado_em |-> agora])

\* Python's None as the tipo argument of is_processed
SEM_TIPO == "None"

\* as is_processed_linhas, a lookup without type looking for the default type
is_processed_linhas_tipo_padrao(t, item_id, tipo) ==
    \E i \in 1..Len(t) :
        /\ t[i].id = item_id
        /\ t[i].tipo = IF tipo = SEM_TIPO THEN "agendamento" ELSE tipo

\* storage.py lines 117-126: SELECT 1 FROM processed WHERE id = item_id, with
\* AND tipo = tipo when a type is given; true when a row comes back
is_processed_linhas(t, item_id, tipo) ==
    \E i \in 1..Len(t) :
        /\ t[i].id = item_id
        /\ tipo # SEM_TIPO => t[i].tipo = tipo

\* DELETE FROM processed WHERE id = item_id AND tipo = tipo
clear_processed_linhas(t, item_id, tipo) ==
    SelectSeq(t, LAMBDA r : chave(r) # <<item_id, tipo>>)

----------------------------------------------------------------------------
(* sender.py: the delivery dispatcher (provider "aspa", fully configured)  *)

SUCESSO == {"200", "201", "202"}

RETRYABLE_STATUS_CODES == {"500", "502", "503", "504", "429"}

\* outcome of one requests.post: an HTTP status or a raised exception
Respostas ==
    SUCESSO \cup RETRYABLE_STATUS_CODES
        \cup {"400", "401", "404", "Timeout", "ConnectionError", "RequestException"}

\* as transitoria, without the two exception branches
transitoria_so_status(r) == r \in RETRYABLE_STATUS_CODES

\* as transitoria, with the malformed-request status among the retried ones
transitoria_com_400(r) ==
    r \in RETRYABLE_STATUS_CODES \cup {"400", "Timeout", "ConnectionError"}

\* the branches of the attempt loop that sleep and retry while attempts remain
transitoria(r) == r \in RETRYABLE_STATUS_CODES \cup {"Timeout", "ConnectionError"}

\* for tentativa in range(1, max + 1): ... ; return False
RECURSIVE tentar(_, _, _, _)
tentar(resps, tentativa, max, esperas) ==
    IF tentativa > max
    THEN [ok |-> FALSE, tentativas |-> tentativa - 1, esperas |-> esperas]
    ELSE IF resps[tentativa] \in SUCESSO
    THEN [ok |-> TRUE, tentativas |-> tentativa, esperas |-> esperas]
    ELSE IF transitoria(resps[tentativa])
    THEN IF tentativa < max
         THEN tentar(resps, tentativa + 1, max, esperas + 1)
         ELSE [ok |-> FALSE, tentativas |-> tentativa, esperas |-> esperas]
    ELSE [ok |-> FALSE, tentativas |-> tentativa, esperas |-> esperas]

\* as enviar_mensagem_aspa, a success anywhere among the answers counting
enviar_mensagem_aspa_qualquer_sucesso(template_key, resps, max) ==
    IF template_key = ""
    THEN [ok |-> FALSE, tentativas |-> 0, esperas |-> 0]
    ELSE [tentar(resps, 1, max, 0)
            EXCEPT !.ok = \E i \in 1..Len(resps) : resps[i] \in SUCESSO]

enviar_mensagem_aspa(template_key, resps, max) ==
    IF template_key = ""
    THEN [ok |-> FALSE, tentativas |-> 0, esperas |-> 0]
    ELSE tentar(resps, 1, max, 0)

enviar_mensagem(template_key, resps) ==
    enviar_mensagem_aspa(template_key, resps, MAX_RETRIES)

----------------------------------------------------------------------------
(* main.py: field extraction *)

obter_status_agendamento(a) == a.status

obter_numero_paciente(a) == SelectSeq(a.telefone, isdigit)

normalizar_numero_para_comparacao(numero) ==
    LET numero_limpo == SelectSeq(numero, isdigit)
    IN  IF Len(numero_limpo) > 11 /\ SubSeq(numero_limpo, 1, 2) = <<"5", "5">>
        THEN SubSeq(numero_limpo, 3, Len(numero_limpo))
        ELSE numero_limpo

numero_de_teste(numero) ==
    normalizar_numero_para_comparacao(numero)
        = normalizar_numero_para_comparacao(NUMERO_TESTE)

(* main.py: status classifier *)

\* as cancelamento_detectado, looking for the keyword in the text as written
cancelamento_detectado_sem_upper(a) ==
    contem(CANCELAMENTO_KEYWORD, obter_status_agendamento(a))

cancelamento_detectado(a) ==
    contem(CANCELAMENTO_KEYWORD, upper(obter_status_agendamento(a)))

confirmado_detectado(a) ==
    contem(CONFIRMADO_KEYWORD, upper(obter_status_agendamento(a)))

classificar(a) ==
    IF cancelamento_detectado(a) THEN "cancelamento"
    ELSE IF confirmado_detectado(a) THEN "agendamento"
    ELSE "ignore"

----------------------------------------------------------------------------
(* main.py: processar_intervalo, the handling of one record of a page      *)

ASPA_TEMPLATE_CONFIRMACAO == "AGENDAMENTO_MODEL_NAME"

ASPA_TEMPLATE_EXC_CONS == "AGENDAMENTO_EXC_CONS_MODEL_NAME"

ASPA_TEMPLATE_REAGENDAMENTO == "REAGENDAMENTO_MODEL_NAME"

ASPA_TEMPLATE_CANCELAMENTO == "CANCELAMENTO_MODEL_NAME"

\* what the driver did with a record; the value before any record is handled
EvInicio ==
    [caminho |-> "nenhum", decisao |-> "", parou |-> "", leituras |-> 0,
     chamou |-> FALSE, tentativas |-> 0, esperas |-> 0, ok |-> FALSE,
     excecao |-> FALSE, template |-> "", lead |-> 0, mudou_tipo |-> FALSE]

\* a record left before any dispatcher call
EvSemEnvio(caminho, decisao, parou, leituras) ==
    [EvInicio EXCEPT !.caminho = caminho, !.decisao = decisao,
                     !.parou = parou, !.leituras = leituras]

\* a record for which the dispatcher was called, with the call's result r
EvEnvio(caminho, decisao, leituras, template, r, excecao) ==
    [caminho |-> caminho, decisao |-> decisao, parou |-> "", leituras |-> leituras,
     chamou |-> TRUE, tentativas |-> r.tentativas, esperas |-> r.esperas,
     ok |-> r.ok, excecao |-> excecao, template |-> template, lead |-> 0,
     mudou_tipo |-> FALSE]

\* lines 472-583: the cancellation path
\* as processar_cancelamento, without the lookup of the cancellation entry
processar_cancelamento_sem_consulta(l, a, resps) ==
    IF obter_numero_paciente(a) = <<>> \/ a.data = 0 \/ a.hora = <<>>
    THEN [ledger |-> l, ev |-> EvSemEnvio("cancelamento", "new", "sem-dados", 1)]
    ELSE IF ~numero_de_teste(obter_numero_paciente(a))
    THEN [ledger |-> l, ev |-> EvSemEnvio("cancelamento", "new", "teste", 1)]
    ELSE LET ok_cancel == enviar_mensagem(ASPA_TEMPLATE_CANCELAMENTO, resps)
         IN  [ledger |-> IF ok_cancel.ok
                         THEN mark_processed(l, AG_ID, "cancelamento", NULO, HORA_NULA)
                         ELSE l,
              ev |-> EvEnvio("cancelamento", "new", 1,
                             ASPA_TEMPLATE_CANCELAMENTO, ok_cancel, FALSE)]

\* as processar_cancelamento, a delivered cancellation notice also removing
\* the confirmation entry of the id
processar_cancelamento_apaga_confirmacao(l, a, resps) ==
    IF is_processed(l, AG_ID, "cancelamento")
    THEN [ledger |-> l, ev |-> EvSemEnvio("cancelamento", "duplicate", "", 1)]
    ELSE IF obter_numero_paciente(a) = <<>> \/ a.data = 0 \/ a.hora = <<>>
    THEN [ledger |-> l, ev |-> EvSemEnvio("cancelamento", "new", "sem-dados", 1)]
    ELSE IF ~numero_de_teste(obter_numero_paciente(a))
    THEN [ledger |-> l, ev |-> EvSemEnvio("cancelamento", "new", "teste", 1)]
    ELSE LET ok_cancel == enviar_mensagem(ASPA_TEMPLATE_CANCELAMENTO, resps)
         IN  [ledger |-> IF ok_cancel.ok
                         THEN clear_processed(
                                  mark_processed(l, AG_ID, "cancelamento", NULO, HORA_NULA),
                                  AG_ID, "agendamento")
                         ELSE l,
              ev |-> EvEnvio("cancelamento", "new", 1,
                             ASPA_TEMPLATE_CANCELAMENTO, ok_cancel, FALSE)]

processar_cancelamento(l, a, resps) ==
    IF is_processed(l, AG_ID, "cancelamento")
    THEN [ledger |-> l, ev |-> EvSemEnvio("cancelamento", "duplicate", "", 1)]
    ELSE IF obter_numero_paciente(a) = <<>> \/ a.data = 0 \/ a.hora = <<>>
    THEN [ledger |-> l, ev |-> EvSemEnvio("cancelamento", "new", "sem-dados", 1)]
    ELSE IF ~numero_de_teste(obter_numero_paciente(a))
    THEN [ledger |-> l, ev |-> EvSemEnvio("cancelamento", "new", "teste", 1)]
    ELSE LET ok_cancel == enviar_mensagem(ASPA_TEMPLATE_CANCELAMENTO, resps)
         IN  [ledger |-> IF ok_cancel.ok
                         THEN mark_processed(l, AG_ID, "cancelamento", NULO, HORA_NULA)
                         ELSE l,
              ev |-> EvEnvio("cancelamento", "new", 1,
                             ASPA_TEMPLATE_CANCELAMENTO, ok_cancel, FALSE)]

\* lines 601-602
cancelamento_previo(l) == is_processed(l, AG_ID, "cancelamento")

ja_processado_agendamento(l) == is_processed(l, AG_ID, "agendamento")

\* as eh_reagendamento, comparing the time texts without cutting them to HH:MM
eh_reagendamento_sem_corte(l, a) ==
    /\ ja_processado_agendamento(l)
    /\ LET data_anterior == get_processed_data(l, AG_ID, "agendamento")[1]
           hora_anterior == get_processed_data(l, AG_ID, "agendamento")[2]
       IN  /\ data_anterior # NULO
           /\ hora_anterior # HORA_NULA
           /\ \/ a.data # data_anterior
              \/ a.hora # hora_anterior

\* as eh_reagendamento, looking at the date only
eh_reagendamento_so_data(l, a) ==
    /\ ja_processado_agendamento(l)
    /\ LET data_anterior == get_processed_data(l, AG_ID, "agendamento")[1]
           hora_anterior == get_processed_data(l, AG_ID, "agendamento")[2]
       IN  /\ data_anterior # NULO
           /\ hora_anterior # HORA_NULA
           /\ a.data # data_anterior

\* as eh_reagendamento, only the stored time being cut to HH:MM
eh_reagendamento_corta_so_anterior(l, a) ==
    /\ ja_processado_agendamento(l)
    /\ LET data_anterior == get_processed_data(l, AG_ID, "agendamento")[1]
           hora_anterior == get_processed_data(l, AG_ID, "agendamento")[2]
       IN  /\ data_anterior # NULO
           /\ hora_anterior # HORA_NULA
           /\ \/ a.data # data_anterior
              \/ a.hora # hhmm(hora_anterior)

\* as eh_reagendamento, an unset stored date or time counting as a difference
eh_reagendamento_sem_anterior(l, a) ==
    /\ ja_processado_agendamento(l)
    /\ LET data_anterior == get_processed_data(l, AG_ID, "agendamento")[1]
           hora_anterior == get_processed_data(l, AG_ID, "agendamento")[2]
       IN  \/ data_anterior = NULO
           \/ hora_anterior = HORA_NULA
           \/ a.data # data_anterior
           \/ hhmm(a.hora) # hhmm(hora_anterior)

\* lines 609-624: date or HH:MM differs from the stored ones
eh_reagendamento(l, a) ==
    /\ ja_processado_agendamento(l)
    /\ LET data_anterior == get_processed_data(l, AG_ID, "agendamento")[1]
           hora_anterior == get_processed_data(l, AG_ID, "agendamento")[2]
       IN  /\ data_anterior # NULO
           /\ hora_anterior # HORA_NULA
           /\ \/ a.data # data_anterior
              \/ hhmm(a.hora) # hhmm(hora_anterior)

\* as mudou_tipo_consulta, an unset type id counting as a type of its own
mudou_tipo_consulta_sem_nulos(l, a) ==
    /\ ja_processado_agendamento(l)
    /\ get_processed_tc(l, AG_ID, "agendamento") # a.tc

\* lines 626-649: both type ids known and different
mudou_tipo_consulta(l, a) ==
    /\ ja_processado_agendamento(l)
    /\ LET id_tipo_consulta_anterior == get_processed_tc(l, AG_ID, "agendamento")
       IN  /\ id_tipo_consulta_anterior # NULO
           /\ a.tc # NULO
           /\ id_tipo_consulta_anterior # a.tc

\* lines 652-654
reativar_pos_cancelamento(l, a) ==
    /\ ja_processado_agendamento(l)
    /\ ~eh_reagendamento(l, a)
    /\ ~mudou_tipo_consulta(l, a)
    /\ cancelamento_previo(l)

\* the outcome of reconciling a confirmation candidate (lines 595-729)
decisao_agendamento(l, a) ==
    IF ~ja_processado_agendamento(l) THEN "new"
    ELSE IF eh_reagendamento(l, a) THEN "reschedule"
    ELSE IF mudou_tipo_consulta(l, a) THEN "retype"
    ELSE IF reativar_pos_cancelamento(l, a) THEN "reactivation"
    ELSE "duplicate"

\* as escolher_template, the type change deciding before the reschedule
escolher_template_tipo_primeiro(l, a) ==
    IF mudou_tipo_consulta(l, a) \/ ~eh_reagendamento(l, a)
    THEN IF a.tc # NULO /\ a.tc = ID_TIPO_CONSULTA THEN ASPA_TEMPLATE_CONFIRMACAO
         ELSE ASPA_TEMPLATE_EXC_CONS
    ELSE ASPA_TEMPLATE_REAGENDAMENTO

\* lines 807-849
escolher_template(l, a) ==
    IF eh_reagendamento(l, a) THEN ASPA_TEMPLATE_REAGENDAMENTO
    ELSE IF a.tc # NULO /\ a.tc = ID_TIPO_CONSULTA THEN ASPA_TEMPLATE_CONFIRMACAO
    ELSE ASPA_TEMPLATE_EXC_CONS

\* as gravar_agendamento, leaving the cancellation entry in place
gravar_agendamento_sem_limpar(l, a) ==
    mark_processed_tc(l, AG_ID, "agendamento", a.data, a.hora, a.tc)

\* as gravar_agendamento, deleting the cancellation entry on reactivation only
gravar_agendamento_so_reativacao(l, a) ==
    LET marcado == mark_processed_tc(l, AG_ID, "agendamento", a.data, a.hora, a.tc)
    IN  IF reativar_pos_cancelamento(l, a)
        THEN clear_processed(marcado, AG_ID, "cancelamento")
        ELSE marcado

\* lines 861-873: the ledger after a successful confirmation-path dispatch
gravar_agendamento(l, a) ==
    LET marcado == mark_processed_tc(l, AG_ID, "agendamento", a.data, a.hora, a.tc)
    IN  IF cancelamento_previo(l)
        THEN clear_processed(marcado, AG_ID, "cancelamento")
        ELSE marcado

\* lines 595-902: the confirmation path
processar_agendamento(l, a, resps) ==
    LET leituras == IF ja_processado_agendamento(l) THEN 3 ELSE 2
        decisao == decisao_agendamento(l, a)
        com_tipo(e) == [e EXCEPT !.mudou_tipo = mudou_tipo_consulta(l, a)]
    IN  IF decisao = "duplicate"
        THEN [ledger |-> l,
              ev |-> com_tipo(EvSemEnvio("agendamento", decisao, "", leituras))]
        ELSE IF obter_numero_paciente(a) = <<>>
        THEN [ledger |-> l,
              ev |-> com_tipo(EvSemEnvio("agendamento", decisao, "sem-dados", leituras))]
        ELSE IF ~numero_de_teste(obter_numero_paciente(a))
        THEN [ledger |-> l,
              ev |-> com_tipo(EvSemEnvio("agendamento", decisao, "teste", leituras))]
        ELSE LET ok == enviar_mensagem(escolher_template(l, a), resps)
                 falha_gravar == ok.ok /\ mark_processed_raises(a.data, a.hora)
             IN  [ledger |-> IF ok.ok /\ ~falha_gravar
                             THEN gravar_agendamento(l, a)
                             ELSE l,
                  ev |-> com_tipo(EvEnvio("agendamento", decisao, leituras,
                                          escolher_template(l, a), ok, falha_gravar))]

\* lines 439-902: one record that carries an id
processar_registro(l, a, resps) ==
    IF cancelamento_detectado(a) THEN processar_cancelamento(l, a, resps)
    ELSE IF ~confirmado_detectado(a)
    THEN [ledger |-> l, ev |-> EvSemEnvio("ignore", "", "", 0)]
    ELSE processar_agendamento(l, a, resps)

----------------------------------------------------------------------------
(* main.py: processar_lembretes, the handling of one record of a page      *)
(* Instants and lead times are in minutes.                                  *)

eh_duoglide(a) ==
    \E i \in 1..Len(a.procedimentos) : contem("duoglide", lower(a.procedimentos[i]))

eh_usg_abdomen(a) ==
    \E i \in 1..Len(a.procedimentos) :
        /\ contem("usg", lower(a.procedimentos[i]))
        /\ \/ contem("abdomen", lower(a.procedimentos[i]))
           \/ contem("abdômen", lower(a.procedimentos[i]))

eh_depilacao_laser(a) ==
    \E i \in 1..Len(a.procedimentos) :
        contem("depilação a laser", lower(a.procedimentos[i]))

\* lines 33-36: the template names read from the environment, "" when unset
ASPA_TEMPLATE_LEMBRETE_PADRAO ==
    IF "lembrete_padrao" \in modelos THEN "LEMBRETE_PADRAO_MODEL_NAME" ELSE ""

ASPA_TEMPLATE_LEMBRETE_DEPILACAO ==
    IF "lembrete_depilacao" \in modelos THEN "LEMBRETE_DEPILACAO_MODEL_NAME" ELSE ""

ASPA_TEMPLATE_LEMBRETE_USG ==
    IF "lembrete_usg" \in modelos THEN "LEMBRETE_USG_MODEL_NAME" ELSE ""

ASPA_TEMPLATE_LEMBRETE_DUOGLIDE ==
    IF "lembrete_duoglide" \in modelos THEN "LEMBRETE_DUOGLIDE_MODEL_NAME" ELSE ""

\* lines 1002-1039, in priority order; delta_target and tolerancia in hours
lembrete_configs ==
    << [nome |-> "lembrete_duoglide", template |-> ASPA_TEMPLATE_LEMBRETE_DUOGLIDE,
        delta_target |-> 72, tolerancia |-> 3],
       [nome |-> "lembrete_usg", template |-> ASPA_TEMPLATE_LEMBRETE_USG,
        delta_target |-> 24, tolerancia |-> 2],
       [nome |-> "lembrete_depilacao", template |-> ASPA_TEMPLATE_LEMBRETE_DEPILACAO,
        delta_target |-> 24, tolerancia |-> 2],
       [nome |-> "lembrete_padrao", template |-> ASPA_TEMPLATE_LEMBRETE_PADRAO,
        delta_target |-> 24, tolerancia |-> 2] >>

predicate(cfg, a) ==
    CASE cfg.nome = "lembrete_duoglide"  -> eh_duoglide(a)
      [] cfg.nome = "lembrete_usg"       -> eh_usg_abdomen(a)
      [] cfg.nome = "lembrete_depilacao" -> eh_depilacao_laser(a)
      [] OTHER                           -> TRUE

abs(x) == IF x < 0 THEN 0 - x ELSE x

\* as na_janela, leaving out the two ends of the window
na_janela_aberta(cfg, delta) ==
    abs(delta - cfg.delta_target * 60) < cfg.tolerancia * 60

\* line 1098 negated: abs(delta_horas - alvo) <= tolerancia, delta in minutes
na_janela(cfg, delta) == abs(delta - cfg.delta_target * 60) <= cfg.tolerancia * 60

\* as config_serve, a configuration without template name not being skipped
config_serve_sem_modelo(cfg, a, delta) ==
    /\ predicate(cfg, a)
    /\ na_janela(cfg, delta)

\* lines 1090-1100: the conditions under which the loop does not skip cfg
config_serve(cfg, a, delta) ==
    /\ cfg.template # ""
    /\ predicate(cfg, a)
    /\ na_janela(cfg, delta)

\* as config_selecionada, the loop going on after a configuration that serves
config_selecionada_ultima(a, delta) ==
    IF \E i \in 1..Len(lembrete_configs) : config_serve(lembrete_configs[i], a, delta)
    THEN CHOOSE i \in 1..Len(lembrete_configs) :
            /\ config_serve(lembrete_configs[i], a, delta)
            /\ \A j \in (i + 1)..Len(lembrete_configs) :
                    ~config_serve(lembrete_configs[j], a, delta)
    ELSE 0

\* lines 1088-1101: index of the first configuration that serves, 0 when none
config_selecionada(a, delta) ==
    IF \E i \in 1..Len(lembrete_configs) : config_serve(lembrete_configs[i], a, delta)
    THEN CHOOSE i \in 1..Len(lembrete_configs) :
            /\ config_serve(lembrete_configs[i], a, delta)
            /\ \A j \in 1..(i - 1) : ~config_serve(lembrete_configs[j], a, delta)
    ELSE 0

\* _obter_datetime_agendamento: the instant of data + hora[:5]; NULO when missing
obter_datetime_agendamento(a) ==
    IF a.data = 0 \/ a.hora = <<>>
    THEN NULO
    ELSE a.data * 1440 + hhmm(a.hora)[1] * 60 + hhmm(a.hora)[2]

EvLembrete(decisao, parou, leituras, delta) ==
    [EvSemEnvio("lembrete", decisao, parou, leituras) EXCEPT !.lead = delta]

\* as gravar_lembrete, writing the entry whatever the dispatcher returned
gravar_lembrete_sem_ok(l, a, tipo_lembrete, ok) ==
    mark_processed_tc(l, AG_ID, tipo_lembrete, a.data, a.hora, a.tc)

\* lines 1165-1172: the entry is written when the dispatcher returned true
gravar_lembrete(l, a, tipo_lembrete, ok) ==
    IF ok
    THEN mark_processed_tc(l, AG_ID, tipo_lembrete, a.data, a.hora, a.tc)
    ELSE l

\* as lembrete_ja_enviado, the entry counting only for the day it was sent for
lembrete_ja_enviado_na_data(l, a, tipo_lembrete) ==
    /\ is_processed(l, AG_ID, tipo_lembrete)
    /\ get_processed_data(l, AG_ID, tipo_lembrete)[1] = a.data

\* lines 1107-1112: the variant was already sent for this id
lembrete_ja_enviado(l, a, tipo_lembrete) == is_processed(l, AG_ID, tipo_lembrete)

\* lines 1066-1181: one record that carries an id, at instant agora
\* as processar_lembrete, without the test of the phone number
processar_lembrete_sem_teste(l, a, agora, resps) ==
    LET dt_ag == obter_datetime_agendamento(a)
        delta == dt_ag - agora
        sel   == config_selecionada(a, delta)
        cfg   == lembrete_configs[sel]
    IN  IF ~contem("CONFIRMADO", upper(obter_status_agendamento(a)))
        THEN [ledger |-> l, ev |-> EvLembrete("", "status", 0, 0)]
        ELSE IF dt_ag = NULO
        THEN [ledger |-> l, ev |-> EvLembrete("", "sem-data", 0, 0)]
        ELSE IF delta <= 0
        THEN [ledger |-> l, ev |-> EvLembrete("", "passado", 0, delta)]
        ELSE IF sel = 0
        THEN [ledger |-> l, ev |-> EvLembrete("", "sem-config", 0, delta)]
        ELSE IF lembrete_ja_enviado(l, a, cfg.nome)
        THEN [ledger |-> l, ev |-> EvLembrete(cfg.nome, "duplicate", 1, delta)]
        ELSE IF obter_numero_paciente(a) = <<>>
        THEN [ledger |-> l, ev |-> EvLembrete(cfg.nome, "sem-dados", 1, delta)]
        ELSE LET ok == enviar_mensagem(cfg.template, resps)
             IN  [ledger |-> gravar_lembrete(l, a, cfg.nome, ok.ok),
                  ev |-> [EvEnvio("lembrete", cfg.nome, 1, cfg.template, ok, FALSE)
                            EXCEPT !.lead = delta]]

processar_lembrete(l, a, agora, resps) ==
    LET dt_ag == obter_datetime_agendamento(a)
        delta == dt_ag - agora
        sel   == config_selecionada(a, delta)
        cfg   == lembrete_configs[sel]
    IN  IF ~contem("CONFIRMADO", upper(obter_status_agendamento(a)))
        THEN [ledger |-> l, ev |-> EvLembrete("", "status", 0, 0)]
        ELSE IF dt_ag = NULO
        THEN [ledger |-> l, ev |-> EvLembrete("", "sem-data", 0, 0)]
        ELSE IF delta <= 0
        THEN [ledger |-> l, ev |-> EvLembrete("", "passado", 0, delta)]
        ELSE IF sel = 0
        THEN [ledger |-> l, ev |-> EvLembrete("", "sem-config", 0, delta)]
        ELSE IF lembrete_ja_enviado(l, a, cfg.nome)
        THEN [ledger |-> l, ev |-> EvLembrete(cfg.nome, "duplicate", 1, delta)]
        ELSE IF obter_numero_paciente(a) = <<>>
        THEN [ledger |-> l, ev |-> EvLembrete(cfg.nome, "sem-dados", 1, delta)]
        ELSE IF ~numero_de_teste(obter_numero_paciente(a))
        THEN [ledger |-> l, ev |-> EvLembrete(cfg.nome, "teste", 1, delta)]
        ELSE LET ok == enviar_mensagem(cfg.template, resps)
             IN  [ledger |-> gravar_lembrete(l, a, cfg.nome, ok.ok),
                  ev |-> [EvEnvio("lembrete", cfg.nome, 1, cfg.template, ok, FALSE)
                            EXCEPT !.lead = delta]]

----------------------------------------------------------------------------
(* The reconciliation pass over a source whose snapshot changes with time  *)

Agendamentos ==
    [status : StatusTextos, data : Datas, hora : HoraTextos,
     telefone : Telefones, tc : TiposConsulta, procedimentos : Procedimentos]

\* responses the messaging channel gives during a cycle
RespostasCiclo == {"200", "503", "400"}

\* the answers one dispatcher call can receive: it asks again only after a
\* transient failure, and at most max times
Roteiros(respostas, max) ==
    UNION { { r \in [1..n -> respostas] :
                /\ \A i \in 1..(n - 1) : transitoria(r[i])
                /\ n < max => ~transitoria(r[n]) } : n \in 1..max }

\* the channel answers only when the dispatcher is called
RoteirosCiclo == Roteiros(RespostasCiclo, MAX_RETRIES)

RoteirosSe(chamou) == IF chamou THEN RoteirosCiclo ELSE {<<"200">>}

Lembretes == {"lembrete_duoglide", "lembrete_usg", "lembrete_depilacao",
              "lembrete_padrao"}

SemLembretes == [t \in Lembretes |-> 0]

\* nothing delivered yet
SemEntrega ==
    [existe |-> FALSE, data |-> NULO, hora |-> HORA_NULA, tc |-> NULO,
     canc |-> 0, canc_conf |-> 0]

\* what was delivered, after a record with snapshot a was handled with
\* outcome e: a true return of the dispatcher on the confirmation path
\* delivered a confirmation-class notice carrying a, one on the cancellation
\* path a cancellation notice. canc counts the cancellation notices since
\* the last reactivation notice, canc_conf those since the last
\* confirmation-class notice whose entry was written.
registrar_entrega(g, a, e) ==
    IF ~(e.chamou /\ e.ok) THEN g
    ELSE IF e.caminho = "agendamento"
    THEN [existe |-> TRUE, data |-> a.data, hora |-> a.hora, tc |-> a.tc,
          canc |-> IF e.decisao = "reactivation" THEN 0 ELSE g.canc,
          canc_conf |-> IF e.excecao THEN g.canc_conf ELSE 0]
    ELSE IF e.caminho = "cancelamento"
    THEN [g EXCEPT !.canc = IF @ < MaxContagem THEN @ + 1 ELSE @,
                   !.canc_conf = IF @ < MaxContagem THEN @ + 1 ELSE @]
    ELSE g

LedgerVazio == [k \in Ids \X Tipos |-> SemLinha]

EnvioParado ==
    [template |-> "", resps |-> <<>>, feito |-> FALSE,
     ok |-> FALSE, tentativas |-> 0, esperas |-> 0]

\* a source of pages: the page count it reports on every page (NULO: none),
\* how many leading pages carry records, the page indices at which the
\* request or the handling of the page raises, whether every request raises,
\* and what it answers past the pages with records
FonteNula ==
    [total |-> NULO, cheias |-> 0, erros |-> {}, fora_do_ar |-> FALSE,
     alem |-> "lista-vazia"]

\* no driver followed step by step
SemDrivers == <<>>

\* no page being looped over; the counters as lines 401-404 set them
ListaParada ==
    [fase |-> "fora", n |-> 0, pos |-> 0, url |-> TRUE,
     total_novos_encontrados |-> 0, total_reagendamentos_detectados |-> 0,
     total_processados |-> 0, retornou_falso |-> 0]

PagParada ==
    [fase |-> "fora", passe |-> "", pagina |-> 0, pedidos |-> <<>>,
     tratadas |-> {}, fonte |-> FonteNula]

Init ==
    /\ ledger = LedgerVazio
    /\ ag \in {a \in Agendamentos : a.procedimentos = << <<"Consulta">> >>}
    /\ ev = EvInicio
    /\ envio = EnvioParado
    /\ pag = PagParada
    /\ hist = 0
    /\ lembretes_ok = SemLembretes
    /\ entregue = SemEntrega
    /\ tabela = <<>>
    /\ drv = SemDrivers
    /\ lista = ListaParada
    /\ modelos = Lembretes

\* the stage reached after a record was handled with outcome e: 1 a
\* confirmation was delivered and recorded, 2 then a cancellation, 3 then a
\* reactivation, 4 then a cancellation again
etapa_seguinte(h, e) ==
    IF ~(e.ok /\ ~e.excecao) THEN h
    ELSE IF h = 0 /\ e.caminho = "agendamento" THEN 1
    ELSE IF h = 1 /\ e.caminho = "cancelamento" THEN 2
    ELSE IF h = 2 /\ e.caminho = "agendamento" /\ e.decisao = "reactivation" THEN 3
    ELSE IF h = 3 /\ e.caminho = "cancelamento" THEN 4
    ELSE h

\* a cycle reaches the record of the tracked appointment
ProcessarRegistro ==
    \E resps \in RoteirosSe(processar_registro(ledger, ag, <<"200">>).ev.chamou) :
        \E r \in {processar_registro(ledger, ag, resps)} :
            /\ ledger' = r.ledger
            /\ ev' = r.ev
            /\ hist' = etapa_seguinte(hist, r.ev)
            /\ UNCHANGED <<ag, envio, pag, lembretes_ok, entregue, tabela, drv, lista, modelos>>

\* a cycle reaches a record without id (lines 440-443)
ProcessarSemId ==
    /\ ev' = EvSemEnvio("sem-id", "", "", 0)
    /\ UNCHANGED <<ledger, ag, envio, pag, hist, lembretes_ok, entregue, tabela, drv, lista, modelos>>

\* between two polls the scheduling source changes one field of the appointment
FonteMuda ==
    /\ \/ \E s \in StatusTextos : ag' = [ag EXCEPT !.status = s]
       \/ \E d \in Datas : ag' = [ag EXCEPT !.data = d]
       \/ \E h \in HoraTextos : ag' = [ag EXCEPT !.hora = h]
       \/ \E t \in Telefones : ag' = [ag EXCEPT !.telefone = t]
       \/ \E c \in TiposConsulta : ag' = [ag EXCEPT !.tc = c]
    /\ ag' # ag
    /\ ev' = EvInicio
    /\ UNCHANGED <<ledger, envio, pag, hist, lembretes_ok, entregue, tabela, drv, lista, modelos>>

Next == ProcessarRegistro \/ ProcessarSemId \/ FonteMuda

Spec == Init /\ [][Next]_vars

\* a cycle in which the channel accepts the notice of the tracked appointment
Entregar == ProcessarRegistro /\ ev'.chamou /\ ev'.ok

\* the scheduler runs cycle after cycle (scheduler.py 39-68: every exception
\* of a cycle is caught and the loop sleeps and goes on), and a channel that
\* is asked again and again does not refuse for ever
SpecJusto == Spec /\ WF_vars(ProcessarRegistro) /\ WF_vars(Entregar)

----------------------------------------------------------------------------
(* The whole cycle (reconciliation pass, then reminder pass) over an       *)
(* appointment that keeps its date, time and type                           *)

\* lead times, in minutes, at which a reminder pass can find the appointment
Leads == {0, 1319, 1320, 1380, 1560, 1561, 4139, 4140, 4501}

InitCiclo ==
    /\ ledger = LedgerVazio
    /\ ag \in {a \in Agendamentos :
                /\ a.data \in {0, 1}
                /\ a.hora = <<10, 0, 30>>
                /\ a.tc = ID_TIPO_CONSULTA}
    /\ ev = EvInicio
    /\ envio = EnvioParado
    /\ pag = PagParada
    /\ hist = 0
    /\ lembretes_ok = SemLembretes
    /\ entregue = SemEntrega
    /\ tabela = <<>>
    /\ drv = SemDrivers
    /\ lista = ListaParada
    /\ modelos = Lembretes

\* the count of delivered reminders after a record was handled with outcome e
\* (it stops counting at MaxContagem)
contar_lembrete(c, e) ==
    IF e.caminho = "lembrete" /\ e.chamou /\ e.ok /\ c[e.decisao] < MaxContagem
    THEN [c EXCEPT ![e.decisao] = @ + 1]
    ELSE c

\* the reminder pass of a cycle reaches the record of the tracked appointment
ProcessarLembrete ==
    \E delta \in Leads :
        LET agora == IF obter_datetime_agendamento(ag) = NULO
                     THEN 0
                     ELSE obter_datetime_agendamento(ag) - delta
        IN  \E resps \in RoteirosSe(
                    processar_lembrete(ledger, ag, agora, <<"200">>).ev.chamou) :
                \E r \in {processar_lembrete(ledger, ag, agora, resps)} :
                    /\ ledger' = r.ledger
                    /\ ev' = r.ev
                    /\ lembretes_ok' = contar_lembrete(lembretes_ok, r.ev)
                    /\ UNCHANGED <<ag, envio, pag, hist, entregue, tabela, drv, lista, modelos>>

\* between two polls the source changes the status, the phone or the procedures
FonteMudaCiclo ==
    /\ \/ \E s \in StatusTextos : ag' = [ag EXCEPT !.status = s]
       \/ \E t \in Telefones : ag' = [ag EXCEPT !.telefone = t]
       \/ \E p \in Procedimentos : ag' = [ag EXCEPT !.procedimentos = p]
    /\ ag' # ag
    /\ ev' = EvInicio
    /\ UNCHANGED <<ledger, envio, pag, hist, lembretes_ok, entregue, tabela, drv, lista, modelos>>

NextCiclo ==
    ProcessarRegistro \/ ProcessarSemId \/ ProcessarLembrete \/ FonteMudaCiclo

SpecCiclo == InitCiclo /\ [][NextCiclo]_vars

----------------------------------------------------------------------------
(* The reminder pass over a confirmed appointment that the source moves to *)
(* another day and whose procedures it changes                              *)

InitLembrete ==
    /\ ledger = LedgerVazio
    /\ ag \in {a \in Agendamentos :
                /\ a.status = <<"CONFIRMADO">>
                /\ a.data = 1 /\ a.hora = <<10, 0, 30>>
                /\ numero_de_teste(obter_numero_paciente(a))
                /\ a.tc = ID_TIPO_CONSULTA}
    /\ ev = EvInicio
    /\ envio = EnvioParado
    /\ pag = PagParada
    /\ hist = 0
    /\ lembretes_ok = SemLembretes
    /\ entregue = SemEntrega
    /\ tabela = <<>>
    /\ drv = SemDrivers
    /\ lista = ListaParada
    /\ modelos = Lembretes

\* between two polls the source moves the appointment or changes its procedures
FonteMudaLembrete ==
    /\ \/ \E d \in Datas \ {0} : ag' = [ag EXCEPT !.data = d]
       \/ \E p \in Procedimentos : ag' = [ag EXCEPT !.procedimentos = p]
    /\ ag' # ag
    /\ ev' = EvInicio
    /\ UNCHANGED <<ledger, envio, pag, hist, lembretes_ok, entregue, tabela, drv, lista, modelos>>

NextLembrete == ProcessarLembrete \/ FonteMudaLembrete

SpecLembrete == InitLembrete /\ [][NextLembrete]_vars

----------------------------------------------------------------------------
(* The reconciliation pass over an appointment with a reachable phone,     *)
(* keeping track of what was delivered                                      *)

InitEntrega ==
    /\ ledger = LedgerVazio
    /\ ag \in {a \in Agendamentos :
                /\ a.status \in {<<"CONFIRMADO">>, <<"Cancelado">>}
                /\ numero_de_teste(obter_numero_paciente(a))
                /\ a.procedimentos = << <<"Consulta">> >>}
    /\ ev = EvInicio
    /\ envio = EnvioParado
    /\ pag = PagParada
    /\ hist = 0
    /\ lembretes_ok = SemLembretes
    /\ entregue = SemEntrega
    /\ tabela = <<>>
    /\ drv = SemDrivers
    /\ lista = ListaParada
    /\ modelos = Lembretes

\* the channel accepts the notice or refuses it at the first attempt
RoteirosEntrega == Roteiros({"200", "400"}, MAX_RETRIES)

\* a cycle reaches the record of the tracked appointment
ProcessarRegistroEntrega ==
    \E resps \in IF processar_registro(ledger, ag, <<"200">>).ev.chamou
                 THEN RoteirosEntrega ELSE {<<"200">>} :
        \E r \in {processar_registro(ledger, ag, resps)} :
            /\ ledger' = r.ledger
            /\ ev' = r.ev
            /\ entregue' = registrar_entrega(entregue, ag, r.ev)
            /\ UNCHANGED <<ag, envio, pag, hist, lembretes_ok, tabela, drv, lista, modelos>>

\* between two polls the source confirms, cancels, moves or retypes the appointment
FonteMudaEntrega ==
    /\ \/ \E s \in {<<"CONFIRMADO">>, <<"Cancelado">>} : ag' = [ag EXCEPT !.status = s]
       \/ \E d \in Datas : ag' = [ag EXCEPT !.data = d]
       \/ \E h \in HoraTextos : ag' = [ag EXCEPT !.hora = h]
       \/ \E c \in TiposConsulta : ag' = [ag EXCEPT !.tc = c]
    /\ ag' # ag
    /\ ev' = EvInicio
    /\ UNCHANGED <<ledger, envio, pag, hist, lembretes_ok, entregue, tabela, drv, lista, modelos>>

NextEntrega == ProcessarRegistroEntrega \/ FonteMudaEntrega

SpecEntrega == InitEntrega /\ [][NextEntrega]_vars

\* between two polls the source confirms, cancels or moves the appointment
\* to another day
FonteMudaFalha ==
    /\ \/ \E s \in {<<"CONFIRMADO">>, <<"Cancelado">>} : ag' = [ag EXCEPT !.status = s]
       \/ \E d \in Datas : ag' = [ag EXCEPT !.data = d]
    /\ ag' # ag
    /\ ev' = EvInicio
    /\ UNCHANGED <<ledger, envio, pag, hist, lembretes_ok, entregue, tabela, drv, lista, modelos>>

----------------------------------------------------------------------------
(* The same pass when lookups of the ledger fail *)

\* the entries the reconciliation pass looks up for the tracked appointment
ChavesLidas == {<<AG_ID, "agendamento">>, <<AG_ID, "cancelamento">>}

\* storage.py 129-131 and 201-203: a lookup that raises is logged and answers
\* False, resp. (None, None), as if there were no entry
leitura_com_falha(l, falhas) ==
    [k \in DOMAIN l |-> IF k \in falhas THEN SemLinha ELSE l[k]]

\* as escritas_sobre, the writes being lost
escritas_perdidas(l, visto, depois) == l

\* the writes of a handler that read the ledger as visto, applied to the
\* ledger l it stands for
escritas_sobre(l, visto, depois) ==
    [k \in DOMAIN l |-> IF depois[k] # visto[k] THEN depois[k] ELSE l[k]]

\* a cycle reaches the record of the tracked appointment while some lookups
\* of its entries fail
ProcessarRegistroFalha ==
    \E falhas \in (SUBSET ChavesLidas) \ {{}} :
      \E visto \in {leitura_com_falha(ledger, falhas)} :
        \E resps \in IF processar_registro(visto, ag, <<"200">>).ev.chamou
                     THEN RoteirosEntrega ELSE {<<"200">>} :
          \E r \in {processar_registro(visto, ag, resps)} :
            /\ ledger' = escritas_sobre(ledger, visto, r.ledger)
            /\ ev' = r.ev
            /\ entregue' = registrar_entrega(entregue, ag, r.ev)
            /\ UNCHANGED <<ag, envio, pag, hist, lembretes_ok, tabela, drv, lista, modelos>>

NextFalha == ProcessarRegistroEntrega \/ ProcessarRegistroFalha \/ FonteMudaFalha

SpecFalha == InitEntrega /\ [][NextFalha]_vars

----------------------------------------------------------------------------
(* init_db.py: inicializar_banco, the seeding of the ledger, followed by   *)
(* the reconciliation pass                                                  *)

\* values of the field idPessoaExecutor of a record
Executores == {NULO, EXECUTOR_BLOQUEADO, EXECUTOR_BLOQUEADO + 1}

\* init_db.py lines 111-112: a field that is empty or missing reads as None
ou_nulo(d) == IF d = 0 THEN NULO ELSE d

hora_ou_nula(h) == IF h = <<>> THEN HORA_NULA ELSE h

\* lines 115-123: the entry type follows the status, "agendamento" when the
\* status carries neither keyword
tipo_processamento(a) ==
    IF cancelamento_detectado(a) THEN "cancelamento" ELSE "agendamento"

\* lines 94-159: the seeding of one record that carries an id
inicializar_registro(l, a, executor) ==
    LET tipo == tipo_processamento(a)
        data_agenda == ou_nulo(a.data)
        hora_agenda == hora_ou_nula(a.hora)
        marcado == mark_processed_tc(l, AG_ID, tipo, data_agenda, hora_agenda, a.tc)
    IN  IF executor = EXECUTOR_BLOQUEADO THEN l
        ELSE IF ~is_processed(l, AG_ID, tipo) THEN marcado
        ELSE IF tipo = "agendamento" /\ data_agenda # NULO /\ hora_agenda # HORA_NULA
        THEN LET data_anterior == get_processed_data(l, AG_ID, "agendamento")[1]
                 hora_anterior == get_processed_data(l, AG_ID, "agendamento")[2]
             IN  IF data_anterior # NULO /\ hora_anterior # HORA_NULA
                 THEN IF \/ a.data # data_anterior
                         \/ hhmm(a.hora) # hhmm(hora_anterior)
                      THEN marcado
                      ELSE l
                 ELSE marcado
        ELSE l

\* the seeding utility reaches the record of the tracked appointment; it
\* has no dispatcher
InicializarRegistro ==
    \E executor \in Executores :
        /\ ledger' = inicializar_registro(ledger, ag, executor)
        /\ ev' = EvSemEnvio("inicializacao", tipo_processamento(ag),
                            IF executor = EXECUTOR_BLOQUEADO THEN "executor" ELSE "", 1)
        /\ UNCHANGED <<ag, envio, pag, hist, lembretes_ok, entregue, tabela, drv, lista, modelos>>

NextInicializacao ==
    InicializarRegistro \/ ProcessarRegistroEntrega \/ FonteMudaFalha

SpecInicializacao == InitEntrega /\ [][NextInicializacao]_vars

\* a cycle reaches the record of the tracked appointment, the channel
\* accepting the notice or refusing it
ProcessarRegistroSemeado ==
    \E resps \in IF processar_registro(ledger, ag, <<"200">>).ev.chamou
                 THEN RoteirosEntrega ELSE {<<"200">>} :
        \E r \in {processar_registro(ledger, ag, resps)} :
            /\ ledger' = r.ledger
            /\ ev' = r.ev
            /\ UNCHANGED <<ag, envio, pag, hist, lembretes_ok, entregue, tabela, drv, lista, modelos>>

\* the seeding utility and the cycles over a ledger it wrote, the source
\* confirming, cancelling, moving and retyping the appointment
NextSemeado ==
    InicializarRegistro \/ ProcessarRegistroSemeado \/ FonteMudaEntrega

SpecSemeado == InitEntrega /\ [][NextSemeado]_vars

----------------------------------------------------------------------------
(* The handling of one record step by step: lookups, dispatcher call,      *)
(* write, by one driver or by several processes against the same ledger    *)

\* a driver between two records
DriverParado == [pc |-> "parado", visto |-> LedgerVazio, resps |-> <<>>]

InitDrivers ==
    /\ ledger = LedgerVazio
    /\ ag \in {a \in Agendamentos :
                /\ a.status \in {<<"CONFIRMADO">>, <<"Cancelado">>}
                /\ a.data = 1 /\ a.hora = <<10, 0>>
                /\ numero_de_teste(obter_numero_paciente(a))
                /\ a.procedimentos = << <<"Consulta">> >>}
    /\ ev = EvInicio
    /\ envio = EnvioParado
    /\ pag = PagParada
    /\ hist = 0
    /\ lembretes_ok = SemLembretes
    /\ entregue = SemEntrega
    /\ tabela = <<>>
    /\ \E n \in 1..MaxDrivers : drv = [d \in 1..n |-> DriverParado]
    /\ lista = ListaParada
    /\ modelos = Lembretes

\* main.py lines 473 and 601-611: a driver reaches the record and looks its
\* entries up
Ler ==
    \E d \in DOMAIN drv :
        /\ drv[d].pc = "parado"
        /\ drv' = [drv EXCEPT ![d] = [pc |-> "leu", visto |-> ledger, resps |-> <<>>]]
        /\ UNCHANGED <<ledger, ag, ev, envio, pag, hist, lembretes_ok, entregue, tabela, lista, modelos>>

\* lines 515-557 and 652-852: the driver decides on what it read and, when
\* the record asks for a notice, calls the dispatcher
Despachar ==
    \E d \in DOMAIN drv :
        /\ drv[d].pc = "leu"
        /\ \E resps \in IF processar_registro(drv[d].visto, ag, <<"200">>).ev.chamou
                         THEN RoteirosEntrega ELSE {<<"200">>} :
             \E r \in {processar_registro(drv[d].visto, ag, resps)} :
                /\ ev' = r.ev
                /\ entregue' = registrar_entrega(entregue, ag, r.ev)
                /\ drv' = [drv EXCEPT ![d] = IF r.ev.chamou
                                              THEN [@ EXCEPT !.pc = "enviou", !.resps = resps]
                                              ELSE DriverParado]
        /\ UNCHANGED <<ledger, ag, envio, pag, hist, lembretes_ok, tabela, lista, modelos>>

\* lines 566-567 and 861-867: the driver writes what the call's result asks for
Gravar ==
    \E d \in DOMAIN drv :
        /\ drv[d].pc = "enviou"
        /\ ledger' = escritas_sobre(ledger, drv[d].visto,
                                    processar_registro(drv[d].visto, ag, drv[d].resps).ledger)
        /\ drv' = [drv EXCEPT ![d] = DriverParado]
        /\ UNCHANGED <<ag, ev, envio, pag, hist, lembretes_ok, entregue, tabela, lista, modelos>>

NextDrivers == Ler \/ Despachar \/ Gravar

SpecDrivers == InitDrivers /\ [][NextDrivers]_vars

----------------------------------------------------------------------------
(* The same pass over an unchanged snapshot, the process being stopped and *)
(* started again                                                            *)

\* where the handling of a record can be cut: before the dispatcher is
\* called, between its return and the write of the entry, between the write
\* of the confirmation entry and the removal of the cancellation entry
PontosDeParada == {"antes-do-envio", "apos-envio", "apos-gravar"}

\* main.py 557-568, 852-867: the ledger left behind by a process stopped at
\* ponto while handling the record with outcome r
ledger_na_parada(l, r, ponto) ==
    IF ponto = "apos-gravar"
    THEN [r.ledger EXCEPT ![<<AG_ID, "cancelamento">>] = l[<<AG_ID, "cancelamento">>]]
    ELSE l

\* the process is stopped while it handles the record of the tracked
\* appointment; the next step belongs to a new process that starts from page 0
ProcessarRegistroParada ==
    \E ponto \in PontosDeParada :
      \E resps \in IF processar_registro(ledger, ag, <<"200">>).ev.chamou
                   THEN RoteirosEntrega ELSE {<<"200">>} :
        \E r \in {processar_registro(ledger, ag, resps)} :
          /\ r.ev.chamou
          /\ ledger' = ledger_na_parada(ledger, r, ponto)
          /\ ev' = IF ponto = "antes-do-envio"
                   THEN EvSemEnvio(r.ev.caminho, r.ev.decisao, "processo", r.ev.leituras)
                   ELSE [r.ev EXCEPT !.parou = "processo"]
          /\ entregue' = IF ponto = "antes-do-envio" THEN entregue
                         ELSE registrar_entrega(entregue, ag, r.ev)
          /\ UNCHANGED <<ag, envio, pag, hist, lembretes_ok, tabela, drv, lista, modelos>>

NextParada == ProcessarRegistroEntrega \/ ProcessarRegistroParada

SpecParada == InitEntrega /\ [][NextParada]_vars

----------------------------------------------------------------------------
(* The table "processed" under marks and clears, row by row *)

IdsTabela == {AG_ID, AG_ID + 1}

TiposTabela == {"agendamento", "cancelamento"}

\* the date values a caller passes: None, "" and the date texts
DatasTabela == {NULO} \cup Datas

\* the time values a caller passes: "" and a time text
HorasTabela == {<<>>, <<10, 0>>}

\* init_db on an empty database (lines 46-96)
InitTabela ==
    /\ ledger = LedgerVazio
    /\ ag \in {a \in Agendamentos :
                /\ a.status = <<"CONFIRMADO">> /\ a.data = 1 /\ a.hora = <<10, 0>>
                /\ a.telefone = <<>> /\ a.tc = NULO
                /\ a.procedimentos = << <<"Consulta">> >>}
    /\ ev = EvInicio
    /\ envio = EnvioParado
    /\ pag = PagParada
    /\ hist = 0
    /\ lembretes_ok = SemLembretes
    /\ entregue = SemEntrega
    /\ tabela = <<>>
    /\ drv = SemDrivers
    /\ lista = ListaParada
    /\ modelos = Lembretes

\* a call of mark_processed: the statement fails on a value the column rejects
MarcarLinha ==
    \E item_id \in IdsTabela, tipo \in TiposTabela,
       data_agenda \in DatasTabela, hora_agenda \in HorasTabela :
        IF mark_processed_raises(data_agenda, hora_agenda)
        THEN /\ ev' = [EvSemEnvio("tabela", "erro", "", 0) EXCEPT !.excecao = TRUE]
             /\ UNCHANGED <<ledger, ag, envio, pag, hist, lembretes_ok, entregue, tabela, drv, lista, modelos>>
        ELSE /\ tabela' = mark_processed_linhas(tabela, item_id, tipo, data_agenda, hora_agenda)
             /\ ev' = EvSemEnvio("tabela",
                                 IF em_conflito(tabela, item_id, tipo) # {}
                                 THEN "update" ELSE "insert", "", 0)
             /\ UNCHANGED <<ledger, ag, envio, pag, hist, lembretes_ok, entregue, drv, lista, modelos>>

\* a call of clear_processed
LimparLinha ==
    \E item_id \in IdsTabela, tipo \in TiposTabela :
        /\ tabela' = clear_processed_linhas(tabela, item_id, tipo)
        /\ ev' = EvSemEnvio("tabela", "delete", "", 0)
        /\ UNCHANGED <<ledger, ag, envio, pag, hist, lembretes_ok, entregue, drv, lista, modelos>>

NextTabela == MarcarLinha \/ LimparLinha

SpecTabela == InitTabela /\ [][NextTabela]_vars

----------------------------------------------------------------------------
(* The table with its creation times; hist is the clock of the store *)

\* a call of mark_processed that the store accepts, at a later time than
\* every statement before
MarcarComCriacao ==
    /\ hist < MaxRelogio
    /\ \E item_id \in IdsTabela, tipo \in TiposTabela,
          data_agenda \in DatasTabela, hora_agenda \in HorasTabela :
          /\ ~mark_processed_raises(data_agenda, hora_agenda)
          /\ tabela' = upsert(tabela, item_id, tipo, data_agenda, hora_agenda, hist + 1)
          /\ ev' = EvSemEnvio("tabela",
                              IF em_conflito(tabela, item_id, tipo) # {}
                              THEN "update" ELSE "insert", "", 0)
    /\ hist' = hist + 1
    /\ UNCHANGED <<ledger, ag, envio, pag, lembretes_ok, entregue, drv, lista, modelos>>

NextCriacao == MarcarComCriacao \/ LimparLinha

SpecCriacao == InitTabela /\ [][NextCriacao]_vars

----------------------------------------------------------------------------
(* test_api_mock.py: test_processamento over the table, run again and      *)
(* again, while marks and clears of other callers go on                     *)

\* lines 127-176: the record with id 101 of the mocked first page, which
\* carries a phone number and every field of the template
ProcessarMock ==
    IF is_processed_linhas(tabela, AG_ID, SEM_TIPO)
    THEN /\ ev' = EvSemEnvio("mock", "duplicate", "", 1)
         /\ UNCHANGED <<ledger, ag, envio, pag, hist, lembretes_ok, entregue, tabela, drv, lista, modelos>>
    ELSE /\ tabela' = mark_processed_linhas(tabela, AG_ID, "agendamento", NULO, HORA_NULA)
         /\ ev' = EvSemEnvio("mock", "new", "", 1)
         /\ UNCHANGED <<ledger, ag, envio, pag, hist, lembretes_ok, entregue, drv, lista, modelos>>

NextMock == ProcessarMock \/ MarcarLinha \/ LimparLinha

SpecMock == InitTabela /\ [][NextMock]_vars

----------------------------------------------------------------------------
(* The page loop of a pass (main.py lines 413-929 and 1048-1196), with the *)
(* handling of the records of a page left out                               *)

Passes == {"processar_intervalo", "processar_lembretes"}

Fontes ==
    [total : {NULO} \cup 0..MaxPaginas, cheias : 0..MaxPaginas,
     erros : SUBSET (0..MaxPaginas), fora_do_ar : BOOLEAN,
     alem : {"lista-vazia", "resposta-vazia", "com-registros"}]

\* what the request of page index p ends in
resposta(fonte, p) ==
    IF fonte.fora_do_ar \/ p \in fonte.erros THEN "erro"
    ELSE IF p < fonte.cheias THEN "com-registros"
    ELSE fonte.alem

\* as deve_parar, not looking at agendamentos_encontrados
deve_parar_sem_olhar_lista(pagina, total_paginas, agendamentos_encontrados) ==
    IF total_paginas # NULO
    THEN pagina >= total_paginas
    ELSE FALSE

\* lines 904-920 and 1183-1192: whether the loop breaks after a page
deve_parar(pagina, total_paginas, agendamentos_encontrados) ==
    IF total_paginas # NULO
    THEN pagina >= total_paginas
    ELSE ~agendamentos_encontrados

\* as iteracao, the except branch ending the pass
iteracao_erro_encerra(pagina, r, total_paginas) ==
    IF r = "erro"
    THEN [pagina |-> pagina + 1, parar |-> TRUE, tratou |-> FALSE]
    ELSE IF r = "resposta-vazia"
    THEN [pagina |-> pagina, parar |-> TRUE, tratou |-> FALSE]
    ELSE IF deve_parar(pagina, total_paginas, r = "com-registros")
    THEN [pagina |-> pagina, parar |-> TRUE, tratou |-> r = "com-registros"]
    ELSE [pagina |-> pagina + 1, parar |-> FALSE, tratou |-> r = "com-registros"]

\* one iteration of "while True" at page index pagina, whose request ended
\* in r: the next page index, whether the loop breaks, and whether the
\* records of the page went through the record loop
iteracao(pagina, r, total_paginas) ==
    IF r = "erro"
    THEN [pagina |-> pagina + 1, parar |-> pagina + 1 > LIMITE_PAGINAS,
          tratou |-> FALSE]
    ELSE IF r = "resposta-vazia"
    THEN [pagina |-> pagina, parar |-> TRUE, tratou |-> FALSE]
    ELSE IF deve_parar(pagina, total_paginas, r = "com-registros")
    THEN [pagina |-> pagina, parar |-> TRUE, tratou |-> r = "com-registros"]
    ELSE [pagina |-> pagina + 1, parar |-> FALSE, tratou |-> r = "com-registros"]

InitPag ==
    /\ ledger = LedgerVazio
    /\ ag \in {a \in Agendamentos :
                /\ a.status = <<"AGENDADO">> /\ a.data = 1 /\ a.hora = <<10, 0>>
                /\ a.telefone = <<>> /\ a.tc = NULO
                /\ a.procedimentos = << <<"Consulta">> >>}
    /\ ev = EvInicio
    /\ envio = EnvioParado
    /\ pag = PagParada
    /\ hist = 0
    /\ lembretes_ok = SemLembretes
    /\ entregue = SemEntrega
    /\ tabela = <<>>
    /\ drv = SemDrivers
    /\ lista = ListaParada
    /\ modelos = Lembretes

\* a pass starts at page index 0 (lines 400 and 1042)
IniciarPasse ==
    /\ pag.fase \in {"fora", "fim"}
    /\ \E passe \in Passes, fonte \in Fontes :
          pag' = [fase |-> "buscar", passe |-> passe, pagina |-> 0,
                  pedidos |-> <<>>, tratadas |-> {}, fonte |-> fonte]
    /\ UNCHANGED <<ledger, ag, ev, envio, hist, lembretes_ok, entregue, tabela, drv, lista, modelos>>

\* one iteration of the loop: the page is requested, then the loop breaks or
\* goes on
BuscarPagina ==
    /\ pag.fase = "buscar"
    /\ LET it == iteracao(pag.pagina, resposta(pag.fonte, pag.pagina), pag.fonte.total)
           anotado == Len(pag.pedidos) <= LIMITE_PAGINAS + MaxExcesso
       IN  pag' = [pag EXCEPT !.pedidos = IF anotado THEN Append(@, pag.pagina) ELSE @,
                              !.tratadas = IF it.tratou /\ anotado
                                           THEN @ \cup {pag.pagina} ELSE @,
                              !.pagina = IF it.pagina > LIMITE_PAGINAS + MaxExcesso + 1
                                         THEN it.pagina - 2 ELSE it.pagina,
                              !.fase = IF it.parar THEN "fim" ELSE "buscar"]
    /\ UNCHANGED <<ledger, ag, ev, envio, hist, lembretes_ok, entregue, tabela, drv, lista, modelos>>

NextPag == IniciarPasse \/ BuscarPagina

SpecPag == InitPag /\ [][NextPag]_vars

----------------------------------------------------------------------------
(* scheduler.py: run_forever, one cycle after the other, each cycle the     *)
(* reconciliation pass, then the reminder pass, then the sleep             *)

\* as pode_iniciar_lembretes, the reminder pass not waiting for the end of
\* the reconciliation pass
pode_iniciar_lembretes_sem_esperar(p) ==
    p.fase \in {"buscar", "fim"} /\ p.passe = "processar_intervalo"

\* lines 52-54: processar_lembretes is called when processar_intervalo returned
pode_iniciar_lembretes(p) == p.fase = "fim" /\ p.passe = "processar_intervalo"

\* lines 39-52: the loop body starts, at the first iteration or when the
\* sleep of the previous one has elapsed, with processar_intervalo
IniciarCiclo ==
    /\ pag.fase \in {"fora", "dormir"}
    /\ \E fonte \in Fontes :
          pag' = [fase |-> "buscar", passe |-> "processar_intervalo", pagina |-> 0,
                  pedidos |-> <<>>, tratadas |-> {}, fonte |-> fonte]
    /\ UNCHANGED <<ledger, ag, ev, envio, hist, lembretes_ok, entregue, tabela, drv, lista, modelos>>

\* main.py lines 979-985 and 1042: processar_lembretes returns at once when
\* no reminder template is set, and starts at page index 0 otherwise
iniciar_lembretes(fonte) ==
    IF modelos = {}
    THEN [PagParada EXCEPT !.fase = "fim", !.passe = "processar_lembretes"]
    ELSE [fase |-> "buscar", passe |-> "processar_lembretes", pagina |-> 0,
          pedidos |-> <<>>, tratadas |-> {}, fonte |-> fonte]

\* line 54: the reminder pass of the cycle
IniciarLembretes ==
    /\ pode_iniciar_lembretes(pag)
    /\ \E fonte \in Fontes : pag' = iniciar_lembretes(fonte)
    /\ UNCHANGED <<ledger, ag, ev, envio, hist, lembretes_ok, entregue, tabela, drv, lista, modelos>>

\* lines 56-67: the cycle is over and the loop sleeps INTERVAL_MIN minutes
Dormir ==
    /\ pag.fase = "fim" /\ pag.passe = "processar_lembretes"
    /\ pag' = [PagParada EXCEPT !.fase = "dormir"]
    /\ UNCHANGED <<ledger, ag, ev, envio, hist, lembretes_ok, entregue, tabela, drv, lista, modelos>>

\* lines 63-67: an exception leaves a pass; it is logged and the loop sleeps
ErroNoCiclo ==
    /\ pag.fase \in {"buscar", "fim"}
    /\ pag' = [PagParada EXCEPT !.fase = "dormir"]
    /\ UNCHANGED <<ledger, ag, ev, envio, hist, lembretes_ok, entregue, tabela, drv, lista, modelos>>

NextScheduler ==
    IniciarCiclo \/ BuscarPagina \/ IniciarLembretes \/ Dormir \/ ErroNoCiclo

SpecScheduler == InitPag /\ [][NextScheduler]_vars

\* every step of the loop that can be taken is taken in the end: the page
\* request returns or raises, the calls follow one another, the sleep ends
SpecSchedulerJusto ==
    /\ SpecScheduler
    /\ WF_vars(IniciarCiclo)
    /\ WF_vars(BuscarPagina)
    /\ WF_vars(IniciarLembretes)
    /\ WF_vars(Dormir)

----------------------------------------------------------------------------
(* The dispatcher under every kind of answer, alone and called by the      *)
(* reconciliation pass                                                      *)

RoteirosEnvio == Roteiros(Respostas, MAX_RETRIES)

InitEnvio ==
    /\ ledger = LedgerVazio
    /\ ag \in {a \in Agendamentos :
                /\ a.status \in {<<"CONFIRMADO">>, <<"Cancelado">>}
                /\ a.data = 1 /\ a.hora = <<10, 0>>
                /\ numero_de_teste(obter_numero_paciente(a))
                /\ a.tc = ID_TIPO_CONSULTA
                /\ a.procedimentos = << <<"Consulta">> >>}
    /\ ev = EvInicio
    /\ envio = EnvioParado
    /\ pag = PagParada
    /\ hist = 0
    /\ lembretes_ok = SemLembretes
    /\ entregue = SemEntrega
    /\ tabela = <<>>
    /\ drv = SemDrivers
    /\ lista = ListaParada
    /\ modelos = Lembretes

\* enviar_mensagem is called with a template key, present or not
Enviar ==
    /\ ~envio.feito
    /\ \E template_key \in {"", ASPA_TEMPLATE_CONFIRMACAO}, resps \in RoteirosEnvio :
          LET r == enviar_mensagem(template_key, resps)
          IN  envio' = [template |-> template_key, resps |-> resps, feito |-> TRUE,
                        ok |-> r.ok, tentativas |-> r.tentativas,
                        esperas |-> r.esperas]
    /\ UNCHANGED <<ledger, ag, ev, pag, hist, lembretes_ok, entregue, tabela, drv, lista, modelos>>

\* the reconciliation pass handles the record, the channel answering resps
ProcessarRegistroEnvio ==
    /\ ~envio.feito
    /\ \E resps \in RoteirosEnvio :
          \E r \in {processar_registro(ledger, ag, resps)} :
              /\ ledger' = r.ledger
              /\ ev' = r.ev
              /\ hist' = etapa_seguinte(hist, r.ev)
              /\ envio' = IF r.ev.chamou
                          THEN [template |-> r.ev.template, resps |-> resps,
                                feito |-> TRUE, ok |-> r.ev.ok,
                                tentativas |-> r.ev.tentativas,
                                esperas |-> r.ev.esperas]
                          ELSE EnvioParado
    /\ UNCHANGED <<ag, pag, lembretes_ok, entregue, tabela, drv, lista, modelos>>

\* the call has returned; the source may have changed the status meanwhile
Retornar ==
    /\ envio' = EnvioParado
    /\ ev' = EvInicio
    /\ \E s \in {<<"CONFIRMADO">>, <<"Cancelado">>} : ag' = [ag EXCEPT !.status = s]
    /\ UNCHANGED <<ledger, pag, hist, lembretes_ok, entregue, tabela, drv, lista, modelos>>

NextEnvio == Enviar \/ ProcessarRegistroEnvio \/ Retornar

SpecEnvio == InitEnvio /\ [][NextEnvio]_vars

----------------------------------------------------------------------------
(* The dispatcher under every value of SENDER_MAX_RETRIES *)

\* sender.py line 15 and lines 332-439: the dispatcher is called in a
\* process that was started with max attempts; resps holds what the channel
\* answers, or would answer, to each of them
EnviarComLimite ==
    /\ ~envio.feito
    /\ \E max \in 0..MaxTentativas :
         \E resps \in [1..max -> Respostas] :
           \E r \in {enviar_mensagem_aspa(ASPA_TEMPLATE_CONFIRMACAO, resps, max)} :
              envio' = [template |-> ASPA_TEMPLATE_CONFIRMACAO, resps |-> resps,
                        feito |-> TRUE, ok |-> r.ok, tentativas |-> r.tentativas,
                        esperas |-> r.esperas]
    /\ UNCHANGED <<ledger, ag, ev, pag, hist, lembretes_ok, entregue, tabela, drv, lista, modelos>>

NextLimite == EnviarComLimite \/ Retornar

SpecLimite == InitEnvio /\ [][NextLimite]_vars

----------------------------------------------------------------------------
(* The record loop over one page of a reconciliation pass (main.py lines   *)
(* 431-946): the records carry distinct ids, ag is the record at hand and  *)
(* ledger the entries of its id; with the exceptions the handling of a     *)
(* record can raise and the counters the pass reports                      *)

\* the records a page can hold
RegistrosDaLista ==
    {a \in Agendamentos :
        /\ a.status \in {<<"CONFIRMADO">>, <<"Cancelado">>}
        /\ a.hora = <<10, 0>>
        /\ a.tc # NULO
        /\ a.procedimentos = << <<"Consulta">> >>}

\* the entries the ledger can hold for the id of a record when the pass
\* reaches it: none or the confirmation entry an earlier pass wrote for day
\* 1 at 10:00, with or without a cancellation entry
LedgersDaLista ==
    LET confirmados ==
            {LedgerVazio,
             mark_processed_tc(LedgerVazio, AG_ID, "agendamento",
                               1, <<10, 0>>, ID_TIPO_CONSULTA)}
    IN  confirmados
        \cup {mark_processed(l, AG_ID, "cancelamento", NULO, HORA_NULA) :
                l \in confirmados}

\* the handling of one record when the dispatcher raises for want of
\* SENDER_API_URL (sender.py 290-292) or the ledger write raises after a
\* true return (storage.py 162-169), and where the exception is caught:
\* the confirmation path runs inside the "try" of the record (lines
\* 731-902), the cancellation path (472-583) only inside that of the page
\* (413-929)
processar_da_lista(l, a, resps, url, banco) ==
    LET r == processar_registro(l, a, resps)
        levanta_envio == r.ev.chamou /\ ~url
        levanta_gravar ==
            r.ev.chamou /\ url /\ r.ev.ok /\ (~banco \/ r.ev.excecao)
        levantou == levanta_envio \/ levanta_gravar
    IN  [ledger |-> IF levantou THEN l ELSE r.ledger,
         ev |-> IF levanta_envio
                THEN [r.ev EXCEPT !.ok = FALSE, !.tentativas = 0,
                                  !.esperas = 0, !.excecao = TRUE]
                ELSE [r.ev EXCEPT !.excecao = levantou],
         capturada |-> IF ~levantou THEN "nenhuma"
                       ELSE IF r.ev.caminho = "cancelamento" THEN "pagina"
                       ELSE "registro"]

\* the counters of the pass after a record handled with outcome e (lines
\* 681, 718 and 874), and the number of confirmation-path dispatcher calls
\* that returned false
contar(c, e, capturada) ==
    LET agendamento == e.caminho = "agendamento"
    IN  [c EXCEPT
           !.total_novos_encontrados =
               IF agendamento /\ e.decisao = "new" THEN @ + 1 ELSE @,
           !.total_reagendamentos_detectados =
               IF agendamento /\ e.decisao = "reschedule" THEN @ + 1 ELSE @,
           !.total_processados =
               IF agendamento /\ e.chamou /\ e.ok /\ ~e.excecao THEN @ + 1 ELSE @,
           !.retornou_falso =
               IF agendamento /\ e.chamou /\ ~e.ok /\ capturada = "nenhuma"
               THEN @ + 1 ELSE @]

\* line 939: the number the summary reports as failed confirmation sends
falhas_no_envio(c) ==
    IF c.total_novos_encontrados + c.total_reagendamentos_detectados
         - c.total_processados > 0
    THEN c.total_novos_encontrados + c.total_reagendamentos_detectados
         - c.total_processados
    ELSE 0

InitLista ==
    /\ ledger = LedgerVazio
    /\ ag \in {a \in RegistrosDaLista :
                /\ a.status = <<"CONFIRMADO">> /\ a.data = 1
                /\ a.telefone = <<>> /\ a.tc = ID_TIPO_CONSULTA}
    /\ ev = EvInicio
    /\ envio = EnvioParado
    /\ pag = PagParada
    /\ hist = 0
    /\ lembretes_ok = SemLembretes
    /\ entregue = SemEntrega
    /\ tabela = <<>>
    /\ drv = SemDrivers
    /\ lista = ListaParada
    /\ modelos = Lembretes

\* a pass starts with its counters at zero and gets a page of n records
IniciarLista ==
    /\ lista.fase \in {"fora", "fim"}
    /\ \E n \in 1..MaxRegistros, url \in BOOLEAN :
          lista' = [ListaParada EXCEPT !.fase = "proximo", !.n = n, !.url = url]
    /\ ev' = EvInicio
    /\ UNCHANGED <<ledger, ag, envio, pag, hist, lembretes_ok, entregue, tabela, drv, modelos>>

\* "for ag in lista" (line 439) takes the next record of the page
ProximoDaLista ==
    /\ lista.fase = "proximo"
    /\ ag' \in RegistrosDaLista
    /\ ledger' \in LedgersDaLista
    /\ ev' = EvInicio
    /\ lista' = [lista EXCEPT !.fase = "registro"]
    /\ UNCHANGED <<envio, pag, hist, lembretes_ok, entregue, tabela, drv, modelos>>

\* the record at hand is handled; an exception caught by the "except" of the
\* page (line 922) ends the loop over the page, the pass going on to the
\* summary when the page was the last one
ProcessarDaLista ==
    /\ lista.fase = "registro"
    /\ \E resps \in IF processar_registro(ledger, ag, <<"200">>).ev.chamou /\ lista.url
                    THEN RoteirosEntrega ELSE {<<"200">>},
          banco \in BOOLEAN :
          \E r \in {processar_da_lista(ledger, ag, resps, lista.url, banco)} :
              /\ ledger' = r.ledger
              /\ ev' = r.ev
              /\ lista' = [contar(lista, r.ev, r.capturada) EXCEPT
                             !.pos = @ + 1,
                             !.fase = IF r.capturada = "pagina" \/ lista.pos + 1 = lista.n
                                      THEN "fim" ELSE "proximo"]
    /\ UNCHANGED <<ag, envio, pag, hist, lembretes_ok, entregue, tabela, drv, modelos>>

NextLista == IniciarLista \/ ProximoDaLista \/ ProcessarDaLista

SpecLista == InitLista /\ [][NextLista]_vars

----------------------------------------------------------------------------
(* The reminder pass under every choice of the reminder templates set in   *)
(* the environment: the start of the pass, its page loop over a source of  *)
(* one page, and the handling of the record of that page                   *)

\* a source with one page, holding the record of the tracked appointment or
\* no record
FontesModelos ==
    {f \in Fontes : /\ f.total = NULO /\ f.cheias \in {0, 1} /\ f.erros = {}
                    /\ ~f.fora_do_ar /\ f.alem = "lista-vazia"}

InitModelos ==
    /\ ledger = LedgerVazio
    /\ ag \in {a \in Agendamentos :
                /\ a.status = <<"CONFIRMADO">> /\ a.data = 1 /\ a.hora = <<10, 0>>
                /\ numero_de_teste(obter_numero_paciente(a))
                /\ a.tc = ID_TIPO_CONSULTA}
    /\ ev = EvInicio
    /\ envio = EnvioParado
    /\ pag = [PagParada EXCEPT !.fase = "fim", !.passe = "processar_intervalo"]
    /\ hist = 0
    /\ lembretes_ok = SemLembretes
    /\ entregue = SemEntrega
    /\ tabela = <<>>
    /\ drv = SemDrivers
    /\ lista = ListaParada
    /\ modelos \in SUBSET Lembretes

\* scheduler.py line 54: the reminder pass of a cycle starts
IniciarLembretesModelos ==
    /\ pag.fase = "fim"
    /\ \E fonte \in FontesModelos : pag' = iniciar_lembretes(fonte)
    /\ ev' = EvInicio
    /\ UNCHANGED <<ledger, ag, envio, hist, lembretes_ok, entregue, tabela, drv, lista, modelos>>

\* the record loop of the page that held the record (lines 1066-1181)
ProcessarLembreteDaPagina ==
    /\ pag.passe = "processar_lembretes"
    /\ pag.tratadas # {}
    /\ ev = EvInicio
    /\ ProcessarLembrete

NextModelos == IniciarLembretesModelos \/ BuscarPagina \/ ProcessarLembreteDaPagina

SpecModelos == InitModelos /\ [][NextModelos]_vars

----------------------------------------------------------------------------
(* Properties *)

\* the step handles the record of the tracked appointment in the
\* reconciliation pass
PassoRegistro == ag' = ag /\ ev'.caminho \in {"agendamento", "cancelamento", "ignore"}

linha(l, tipo) == l[<<AG_ID, tipo>>]

\* the ledger holds the notice this snapshot asks for, as it was delivered
JaEntregue(l, a) ==
    \/ /\ classificar(a) = "agendamento"
       /\ linha(l, "agendamento").existe
       /\ linha(l, "agendamento").data = a.data
       /\ hhmm(linha(l, "agendamento").hora) = hhmm(a.hora)
       /\ linha(l, "agendamento").tc = a.tc
       /\ ~linha(l, "cancelamento").existe
    \/ /\ classificar(a) = "cancelamento"
       /\ linha(l, "cancelamento").existe

\* C1: once the confirmation (resp. cancellation) notice of a snapshot has been
\* dispatched and recorded, handling the same snapshot again (same status
\* class, date, HH:MM and type, no cancellation entry in between) is a
\* duplicate: the dispatcher is not called and the ledger does not change.
C1_Idempotencia ==
    [][ (PassoRegistro /\ JaEntregue(ledger, ag))
            => (ev'.decisao = "duplicate" /\ ~ev'.chamou /\ ledger' = ledger) ]_vars

\* a replayed confirmation whose snapshot time has no seconds field while the
\* stored time has one
C1_Testemunha ==
    /\ ev.caminho = "agendamento"
    /\ ev.decisao = "duplicate"
    /\ JaEntregue(ledger, ag)
    /\ linha(ledger, "agendamento").hora # ag.hora

\* the ledger type a dispatch of this step is recorded under
tipo_do_envio(e) ==
    IF e.caminho = "lembrete" THEN e.decisao ELSE e.caminho

\* C2: in both passes a ledger entry is created or overwritten only by the
\* step whose dispatch of that notice type returned true; a step whose
\* dispatch returned false, or that called no dispatcher, leaves every ledger
\* entry as it was (none created, overwritten or deleted).
C2_SoAposSucesso ==
    [][ /\ (~ev'.chamou \/ ~ev'.ok) => ledger' = ledger
        /\ \A tipo \in Tipos :
              (linha(ledger', tipo) # linha(ledger, tipo) /\ linha(ledger', tipo).existe)
                  => (ev'.chamou /\ ev'.ok /\ tipo = tipo_do_envio(ev')) ]_vars

\* a reminder whose dispatch failed on every attempt, handled while the ledger
\* already holds the confirmation entry: no reminder entry appears
C2_Testemunha ==
    /\ ev.caminho = "lembrete"
    /\ ev.chamou /\ ~ev.ok /\ ev.tentativas = MAX_RETRIES
    /\ is_processed(ledger, AG_ID, "agendamento")
    /\ ~is_processed(ledger, AG_ID, ev.decisao)

\* the record can be addressed and passes the test-number gate
Enderecavel(a) ==
    /\ obter_numero_paciente(a) # <<>>
    /\ numero_de_teste(obter_numero_paciente(a))

\* a confirmation candidate with date and time whose date or HH:MM is not the
\* one of the confirmation entry
Mudou(l, a) ==
    /\ classificar(a) = "agendamento"
    /\ linha(l, "agendamento").existe
    /\ a.data # 0 /\ a.hora # <<>>
    /\ \/ a.data # linha(l, "agendamento").data
       \/ hhmm(a.hora) # hhmm(linha(l, "agendamento").hora)

C5_Classificador ==
    [][ PassoRegistro =>
          LET cancela  == contem(CANCELAMENTO_KEYWORD, upper(ag.status))
              confirma == contem(CONFIRMADO_KEYWORD, upper(ag.status))
          IN  /\ cancela => ev'.caminho = "cancelamento"
              /\ (~cancela /\ confirma) => ev'.caminho = "agendamento"
              /\ (~cancela /\ ~confirma)
                    => /\ ev'.caminho = "ignore"
                       /\ ev'.leituras = 0
                       /\ ~ev'.chamou
                       /\ ledger' = ledger ]_vars

\* a status with both keywords, in mixed case, handled as a cancellation
C5_Testemunha ==
    /\ ev.caminho = "cancelamento"
    /\ contem(CONFIRMADO_KEYWORD, upper(ag.status))
    /\ contem(CANCELAMENTO_KEYWORD, upper(ag.status))

\* the step is one iteration of the page loop
PassoPagina == pag.fase = "buscar" /\ pag'.pedidos = Append(pag.pedidos, pag.pagina)

\* every page the source returns reports the page count N >= 1
FonteComTotal(fonte) ==
    /\ fonte.total # NULO
    /\ fonte.total >= 1
    /\ ~fonte.fora_do_ar
    /\ fonte.erros = {}
    /\ fonte.alem = "lista-vazia"

\* C6: when every page reports total-pages = N >= 1, a pass (reconciliation
\* or reminders) that has ended requested exactly the page indices 0..N-1,
\* in order, and never the page index N.
C6_PaginasPedidas ==
    (pag.fase = "fim" /\ FonteComTotal(pag.fonte))
        => pag.pedidos = [i \in 1..pag.fonte.total |-> i - 1]

\* C7: when the source reports no page count, an iteration whose page carries
\* at least one record goes on to the next page index, and an iteration whose
\* page has an empty record list, or whose response is empty, ends the pass:
\* no further page is requested.
C7_SemTotal ==
    [][ /\ (PassoPagina /\ pag.fonte.total = NULO)
            => LET r == resposta(pag.fonte, pag.pagina)
               IN  /\ r = "com-registros"
                        => (pag'.fase = "buscar" /\ pag'.pagina = pag.pagina + 1)
                   /\ r \in {"lista-vazia", "resposta-vazia"}
                        => (pag'.fase = "fim" /\ pag'.pagina = pag.pagina)
        /\ pag.fase = "fim" => pag'.pedidos = <<>> ]_vars

\* a pass over two pages with records and no page count, ended by the third
\* page, whose record list is empty
C7_Testemunha ==
    /\ pag.fase = "fim"
    /\ pag.fonte.total = NULO
    /\ pag.fonte.cheias = 2
    /\ pag.fonte.erros = {} /\ ~pag.fonte.fora_do_ar
    /\ pag.fonte.alem = "lista-vazia"
    /\ pag.pedidos = <<0, 1, 2>>

FalhasTransitorias == {"429", "500", "502", "503", "504", "Timeout", "ConnectionError"}

\* the answers to the attempts the call made
Recebidas(e) == SubSeq(e.resps, 1, e.tentativas)

\* C8: a dispatch whose every attempt ends in a transient failure (429, 500,
\* 502, 503, 504, timeout, connection error) makes exactly MAX_RETRIES
\* attempts with one wait between consecutive attempts and returns false,
\* and the step that made the call leaves the ledger as it was.
C8_FalhaTransitoria ==
    [][ ( /\ envio'.feito /\ envio'.template # ""
          /\ \A i \in 1..Len(Recebidas(envio')) :
                Recebidas(envio')[i] \in FalhasTransitorias )
            => /\ envio'.tentativas = MAX_RETRIES
               /\ envio'.esperas = MAX_RETRIES - 1
               /\ ~envio'.ok
               /\ ledger' = ledger ]_vars

\* a confirmation whose three attempts met a 429, a timeout and a connection
\* error: no entry is written
C8_Testemunha ==
    /\ envio.feito
    /\ envio.resps = <<"429", "Timeout", "ConnectionError">>
    /\ envio.tentativas = MAX_RETRIES
    /\ ~envio.ok
    /\ ev.chamou /\ ev.caminho = "agendamento"
    /\ ~is_processed(ledger, AG_ID, "agendamento")

\* C9: the attempt that receives HTTP 400, or any other answer that is
\* neither a success nor a transient failure, is the last one: the dispatcher
\* returns false at that attempt (after one request when it is the first)
\* without waiting again.
C9_FalhaPermanente ==
    (envio.feito /\ envio.template # "")
        => \A i \in 1..Len(Recebidas(envio)) :
              (Recebidas(envio)[i] \notin SUCESSO \cup FalhasTransitorias)
                  => /\ envio.tentativas = i
                     /\ envio.esperas = i - 1
                     /\ ~envio.ok

\* HTTP 400 answered to the second attempt, one attempt still left
C9_Testemunha ==
    /\ envio.feito
    /\ envio.resps = <<"503", "400">>
    /\ envio.tentativas = 2
    /\ envio.tentativas < MAX_RETRIES
    /\ ~envio.ok

\* the step handles the record in the reminder pass, the record being
\* confirmed and having its date and time
PassoLembreteConfirmado ==
    /\ ag' = ag
    /\ ev'.caminho = "lembrete"
    /\ contem(CONFIRMADO_KEYWORD, upper(ag.status))
    /\ obter_datetime_agendamento(ag) # NULO

\* the reminder variants whose target is 24h and whose tolerance is 2h
Lembretes24h == {"lembrete_usg", "lembrete_depilacao", "lembrete_padrao"}

\* C10: the window of a reminder variant with target 24h and tolerance 2h
\* includes its two ends: a confirmed appointment 23h, 22h00m or 26h00m ahead
\* matches such a variant, and one 21h59m or 26h01m ahead matches none and
\* no reminder is dispatched for it.
C10_Janela ==
    [][ PassoLembreteConfirmado =>
          /\ ev'.lead \in {1320, 1380, 1560} => ev'.decisao \in Lembretes24h
          /\ ev'.lead \in {1319, 1561}
                => (ev'.decisao = "" /\ ~ev'.chamou /\ ledger' = ledger) ]_vars

\* a reminder delivered exactly 26h00m ahead of the appointment
C10_Testemunha ==
    /\ ev.caminho = "lembrete"
    /\ ev.lead = 1560
    /\ ev.decisao = "lembrete_padrao"
    /\ ev.ok
    /\ is_processed(ledger, AG_ID, "lembrete_padrao")

----------------------------------------------------------------------------
(* Reminders *)

\* C11: over any sequence of cycles at most one reminder of a given variant
\* is delivered for an appointment id, also when the appointment stays in
\* the window or is moved to another day and enters the window again; and a
\* variant is dispatched for a reachable record whenever that variant has no
\* entry, whatever other variants were already delivered for the id.
C11_LembreteUmaVez ==
    /\ [](\A t \in Lembretes : lembretes_ok[t] <= 1)
    /\ [][ ( /\ PassoLembreteConfirmado
             /\ ev'.decisao \in Lembretes
             /\ ~is_processed(ledger, AG_ID, ev'.decisao)
             /\ numero_de_teste(obter_numero_paciente(ag)) )
           => ev'.chamou ]_vars

\* two variants were delivered once each for the id, and the appointment,
\* moved to another day since, is in a delivered variant's window again and
\* is skipped as a duplicate
C11_Testemunha ==
    /\ lembretes_ok["lembrete_duoglide"] = 1
    /\ lembretes_ok["lembrete_padrao"] = 1
    /\ ev.caminho = "lembrete"
    /\ ev.parou = "duplicate"
    /\ ~ev.chamou
    /\ linha(ledger, ev.decisao).data # ag.data

----------------------------------------------------------------------------
(* Failed dispatches *)

\* the last handling of the snapshot called the dispatcher, which returned false
Falhou == ev.chamou /\ ~ev.ok

\* the last handling of the snapshot delivered the notice and the entry of
\* its type is in the ledger
Gravado ==
    /\ ev.chamou /\ ev.ok
    /\ is_processed(ledger, AG_ID, tipo_do_envio(ev))

\* C12: a failed dispatch leaves the ledger as it was, without an entry for
\* the snapshot; while the source supplies the same snapshot the next
\* handling decides the same non-duplicate outcome and calls the dispatcher
\* again; and, cycles being scheduled fairly and the dispatcher eventually
\* succeeding, the notice is eventually delivered and recorded unless the
\* source changes the snapshot.
C12_SemPerdaSilenciosa ==
    /\ [][ (PassoRegistro /\ ev'.chamou /\ ~ev'.ok)
              => (ledger' = ledger /\ ~JaEntregue(ledger', ag)) ]_vars
    /\ [][ (PassoRegistro /\ Falhou)
              => (ev'.chamou /\ ev'.decisao = ev.decisao) ]_vars
    /\ (Falhou ~> (Gravado \/ ev = EvInicio))

----------------------------------------------------------------------------
(* The ledger's key *)

\* u has as many rows as t, with the same keys at the same places
AtualizaNoLugar(t, u) ==
    /\ Len(u) = Len(t)
    /\ \A i \in 1..Len(t) : chave(u[i]) = chave(t[i])

\* C13: after any sequence of marks and clears the table holds at most one
\* row per (id, tipo); a mark of a key that has a row changes that row where
\* it is and adds none, a mark of a key without row adds one row, and a
\* clear removes the key's row and no other.
C13_ChaveUnica ==
    /\ [](\A i, j \in 1..Len(tabela) : chave(tabela[i]) = chave(tabela[j]) => i = j)
    /\ [][ /\ ev'.decisao = "update" => AtualizaNoLugar(tabela, tabela')
           /\ ev'.decisao = "insert"
                => /\ Len(tabela') = Len(tabela) + 1
                   /\ SubSeq(tabela', 1, Len(tabela)) = tabela
           /\ ev'.decisao = "delete"
                => /\ Len(tabela') \in {Len(tabela), Len(tabela) - 1}
                   /\ \A i \in 1..Len(tabela') :
                         \E j \in 1..Len(tabela) : tabela'[i] = tabela[j] ]_vars

\* a key was marked a second time, with another date, while another row of
\* the same id and a row of the same type are in the table
C13_Testemunha ==
    /\ ev.caminho = "tabela"
    /\ ev.decisao = "update"
    /\ Len(tabela) = 3
    /\ tabela[1].id = tabela[2].id
    /\ tabela[1].tipo = tabela[3].tipo
    /\ tabela[1].data = 2

----------------------------------------------------------------------------
(* What the confirmation entry holds *)

\* C14: in every reachable state, a confirmation entry of the id holds the
\* date, the time and the consultation type of the snapshot carried by the
\* last delivered confirmation-class notice (new, reschedule, retype or
\* reactivation).
C14_EntradaSegueEntrega ==
    linha(ledger, "agendamento").existe
        => /\ entregue.existe
           /\ linha(ledger, "agendamento").data = entregue.data
           /\ linha(ledger, "agendamento").hora = para_TIME(entregue.hora)
           /\ linha(ledger, "agendamento").tc = entregue.tc

----------------------------------------------------------------------------
(* Dispatch and its effects *)

\* the snapshot carries a usable phone, a date and a time
DadosCompletos(a) ==
    /\ obter_numero_paciente(a) # <<>>
    /\ a.data # 0
    /\ a.hora # <<>>

NaoDuplicado == {"new", "reschedule", "retype", "reactivation"}

\* C15: for every confirmation or cancellation candidate with a usable
\* phone, date and time whose outcome is new, reschedule, retype or
\* reactivation, the dispatcher is called in the same cycle, whatever the
\* phone number is.
C15_SempreTentaEnviar ==
    [][ ( /\ PassoRegistro
          /\ ev'.caminho \in {"agendamento", "cancelamento"}
          /\ DadosCompletos(ag)
          /\ ev'.decisao \in NaoDuplicado )
        => ev'.chamou ]_vars

\* the step handles the record on the confirmation path
PassoAgendamento == PassoRegistro /\ ev'.caminho = "agendamento"

\* the step delivered a confirmation-class notice and wrote its entry
EntregouEGravou == ev'.chamou /\ ev'.ok /\ ~ev'.excecao

\* C16 as stated: a successful confirmation-path dispatch removes the
\* cancellation entry of the id only when the outcome was reactivation; when
\* the outcome was new, reschedule or retype an existing cancellation entry
\* is left unchanged.
C16_SoNaReativacao ==
    [][ PassoAgendamento =>
          /\ linha(ledger', "cancelamento") # linha(ledger, "cancelamento")
                => ev'.decisao = "reactivation"
          /\ ev'.decisao \in {"new", "reschedule", "retype"}
                => linha(ledger', "cancelamento") = linha(ledger, "cancelamento") ]_vars

\* C16 amended: a confirmation-path step that delivers its notice and writes
\* the confirmation entry removes the cancellation entry of the id whenever
\* there is one, whatever the outcome (new, reschedule, retype or
\* reactivation); every other confirmation-path step leaves the cancellation
\* entry unchanged.
C16_SempreQueEntrega ==
    [][ PassoAgendamento =>
          /\ EntregouEGravou => ~linha(ledger', "cancelamento").existe
          /\ ~EntregouEGravou
                => linha(ledger', "cancelamento") = linha(ledger, "cancelamento") ]_vars

\* a cancellation notice was delivered, and the reschedule notice delivered
\* after it removed the cancellation entry
C16_Testemunha ==
    /\ ev.caminho = "agendamento"
    /\ ev.decisao = "reschedule"
    /\ ev.chamou /\ ev.ok /\ ~ev.excecao
    /\ entregue.canc = 1
    /\ ~linha(ledger, "cancelamento").existe

\* C17: a confirmation or cancellation candidate that lacks a usable phone,
\* a date or a time, and a record that lacks an id, cause no dispatch and no
\* ledger change in the cycle, on both paths, so that the next cycle
\* evaluates them again.
C17_SemDadosIgnorado ==
    [][ /\ ( /\ PassoRegistro
              /\ ev'.caminho \in {"agendamento", "cancelamento"}
              /\ ~DadosCompletos(ag) )
            => (~ev'.chamou /\ ledger' = ledger)
        /\ ev'.caminho = "sem-id" => (~ev'.chamou /\ ledger' = ledger) ]_vars

----------------------------------------------------------------------------
(* Type changes *)

\* a confirmation candidate whose date and HH:MM are those of the
\* confirmation entry
MesmaDataHora(l, a) ==
    /\ classificar(a) = "agendamento"
    /\ linha(l, "agendamento").existe
    /\ a.data = linha(l, "agendamento").data
    /\ hhmm(a.hora) = hhmm(linha(l, "agendamento").hora)

\* the stored and the incoming consultation type are both set and differ
TipoDifere(l, a) ==
    /\ linha(l, "agendamento").tc # NULO
    /\ a.tc # NULO
    /\ linha(l, "agendamento").tc # a.tc

----------------------------------------------------------------------------
(* Cancellations *)

\* what a step does with a cancellation candidate: a duplicate, with no
\* dispatch and no ledger change, when the cancellation entry exists; new,
\* with the dispatcher called (when the record has its data and can be
\* addressed), when it does not; and the entry written when the dispatch
\* succeeds
PassoCancelamento ==
    (PassoRegistro /\ classificar(ag) = "cancelamento")
        => /\ linha(ledger, "cancelamento").existe
                => (ev'.decisao = "duplicate" /\ ~ev'.chamou /\ ledger' = ledger)
           /\ ~linha(ledger, "cancelamento").existe
                => /\ ev'.decisao = "new"
                   /\ (Enderecavel(ag) /\ DadosCompletos(ag)) => ev'.chamou
           /\ (ev'.chamou /\ ev'.ok) => linha(ledger', "cancelamento").existe

----------------------------------------------------------------------------
(* Which reminder *)

\* the configurations whose procedure predicate matches a and whose window
\* holds the lead (in minutes)
Casam(a, lead) ==
    {i \in 1..Len(lembrete_configs) :
        /\ predicate(lembrete_configs[i], a)
        /\ abs(lead - lembrete_configs[i].delta_target * 60)
              <= lembrete_configs[i].tolerancia * 60}

\* C21: the reminder selected for a confirmed snapshot with a lead to come
\* is the first configuration, in the order Duoglide 72h, USG 24h, laser
\* depilation 24h, catch-all 24h, whose predicate matches and whose window
\* holds the lead; no configuration after it is selected although it
\* matches too; and when none matches no reminder is dispatched.
C21_PrimeiraQueCasa ==
    [][ (PassoLembreteConfirmado /\ ev'.lead > 0) =>
          /\ \A i \in Casam(ag, ev'.lead) :
                (\A j \in Casam(ag, ev'.lead) : i <= j)
                    => /\ ev'.decisao = lembrete_configs[i].nome
                       /\ ev'.chamou => ev'.template = lembrete_configs[i].template
          /\ Casam(ag, ev'.lead) = {}
                => (ev'.decisao = "" /\ ~ev'.chamou /\ ledger' = ledger) ]_vars

\* a snapshot with a laser depilation and a Duoglide procedure, 23h ahead:
\* the depilation reminder was delivered, not the catch-all one
C21_Testemunha ==
    /\ ev.caminho = "lembrete"
    /\ ev.lead = 1380
    /\ eh_duoglide(ag) /\ eh_depilacao_laser(ag)
    /\ ev.decisao = "lembrete_depilacao"
    /\ ev.chamou /\ ev.ok
    /\ ~is_processed(ledger, AG_ID, "lembrete_padrao")

\* C22: the reminder pass dispatches no reminder for a snapshot that the
\* status classifier maps to cancellation candidate or to ignore, a status
\* text holding both the confirmation and the cancellation keyword included.
C22_SoConfirmados ==
    [][ (ag' = ag /\ ev'.caminho = "lembrete" /\ classificar(ag) # "agendamento")
          => ~ev'.chamou ]_vars

----------------------------------------------------------------------------
(* Pages that fail, and pages without end *)

\* C24: when the request of page index k raises, k being below the cap, the
\* pass does not end there: it goes on to page index k + 1, and the records
\* of every later page that is fetched go through the record loop in the
\* same pass.
C24_ErroSoPulaPagina ==
    /\ [][ ( /\ PassoPagina
              /\ resposta(pag.fonte, pag.pagina) = "erro"
              /\ pag.pagina < LIMITE_PAGINAS )
            => /\ pag'.fase = "buscar"
               /\ pag'.pagina = pag.pagina + 1
               /\ pag'.tratadas = pag.tratadas ]_vars
    /\ [](\A i \in 1..Len(pag.pedidos) :
            resposta(pag.fonte, pag.pedidos[i]) = "com-registros"
                => pag.pedidos[i] \in pag.tratadas)

\* a pass whose first page failed: the second page was fetched and its
\* records handled, and the third, with an empty list, ended the pass
C24_Testemunha ==
    /\ pag.fase = "fim"
    /\ pag.fonte.erros = {0} /\ ~pag.fonte.fora_do_ar
    /\ pag.fonte.total = NULO
    /\ pag.fonte.cheias = 2
    /\ pag.pedidos = <<0, 1, 2>>
    /\ pag.tratadas = {1}

\* C25: in a pass, whatever the source returns, no page index past the cap
\* is requested and the number of requests stays within the cap.
C25_LimiteDePaginas ==
    /\ Len(pag.pedidos) <= LIMITE_PAGINAS + 1
    /\ \A i \in 1..Len(pag.pedidos) : pag.pedidos[i] <= LIMITE_PAGINAS

----------------------------------------------------------------------------
(* The cycle driver *)

EmCiclo == pag.fase \in {"buscar", "fim"}

\* C23: from the running state, whatever the source does during the cycle,
\* errors included, the driver eventually finishes the cycle and sleeps, and
\* from the sleep it starts another cycle.
C23_VoltaAoRepouso ==
    /\ (EmCiclo ~> pag.fase = "dormir")
    /\ (pag.fase = "dormir" ~> EmCiclo)

\* a pass begins: its first page is about to be requested
ComecaPasse(nome) ==
    /\ pag' # pag
    /\ pag'.passe = nome /\ pag'.fase = "buscar" /\ pag'.pedidos = <<>>

----------------------------------------------------------------------------
(* Failing lookups *)

\* C27: when the notice of a snapshot was dispatched and recorded, handling
\* the record again dispatches nothing and records nothing, also when the
\* lookups of its entries fail.
C27_FalhaDeLeituraNaoReenvia ==
    [][ (PassoRegistro /\ JaEntregue(ledger, ag))
            => (~ev'.chamou /\ ledger' = ledger) ]_vars

----------------------------------------------------------------------------
(* Stop and restart *)

\* the notice the unchanged snapshot asks for was delivered
DespachadoAntes ==
    IF classificar(ag) = "cancelamento" THEN entregue.canc > 0 ELSE entregue.existe

\* C28: over an unchanged snapshot, wherever a process was stopped, a notice
\* that was delivered before is not delivered a second time by the process
\* that follows.
C28_ParadaNaoDuplica ==
    [][ (PassoRegistro /\ DespachadoAntes) => ~(ev'.chamou /\ ev'.ok) ]_vars

----------------------------------------------------------------------------
(* Seeding *)

\* C29: the seeding dispatches nothing, and the reconciliation of a record
\* that was just seeded, its snapshot unchanged, dispatches nothing, whatever
\* its status and executor.
C29_InicializacaoSuprime ==
    /\ [][ ev'.caminho = "inicializacao" => ~ev'.chamou ]_vars
    /\ [][ (PassoRegistro /\ ev.caminho = "inicializacao") => ~ev'.chamou ]_vars

----------------------------------------------------------------------------
(* Marks and lookups *)

ExisteChave(t, item_id, tipo) == \E i \in 1..Len(t) : chave(t[i]) = <<item_id, tipo>>

ExisteId(t, item_id) == \E i \in 1..Len(t) : t[i].id = item_id

\* C30: a lookup with a type is true exactly when the table has a row with
\* that key, a lookup without type exactly when it has a row of the id under
\* any type; a mark that went through leaves both lookups true, and they stay
\* true until a clear; the mocked processing run again marks an id only when
\* the table has no row of it, and otherwise leaves the table as it is.
C30_MarcarEConsultar ==
    /\ [](\A item_id \in IdsTabela :
            /\ is_processed_linhas(tabela, item_id, SEM_TIPO) <=> ExisteId(tabela, item_id)
            /\ \A tipo \in TiposTabela :
                  is_processed_linhas(tabela, item_id, tipo)
                      <=> ExisteChave(tabela, item_id, tipo))
    /\ [][ \A item_id \in IdsTabela, tipo \in TiposTabela :
             /\ (ExisteChave(tabela', item_id, tipo) /\ ev'.decisao \in {"insert", "update", "new"})
                    => /\ is_processed_linhas(tabela', item_id, tipo)
                       /\ is_processed_linhas(tabela', item_id, SEM_TIPO)
             /\ (is_processed_linhas(tabela, item_id, tipo) /\ ev'.decisao # "delete")
                    => /\ is_processed_linhas(tabela', item_id, tipo)
                       /\ is_processed_linhas(tabela', item_id, SEM_TIPO) ]_vars
    /\ [][ ev'.caminho = "mock"
             => IF ExisteId(tabela, AG_ID)
                THEN ev'.decisao = "duplicate" /\ tabela' = tabela
                ELSE /\ ev'.decisao = "new"
                     /\ tabela' = Append(tabela, [id |-> AG_ID, tipo |-> "agendamento",
                                                   data |-> NULO, hora |-> HORA_NULA]) ]_vars

\* the mocked processing skipped the id because of a row of another type,
\* while the other id has a row too
C30_Testemunha ==
    /\ ev.caminho = "mock" /\ ev.decisao = "duplicate"
    /\ ExisteChave(tabela, AG_ID, "cancelamento")
    /\ ~ExisteChave(tabela, AG_ID, "agendamento")
    /\ ExisteId(tabela, AG_ID + 1)

----------------------------------------------------------------------------
(* The dispatcher, whatever the number of attempts allowed *)

\* C31: with max attempts allowed (max >= 0) and whatever the channel
\* answers, a dispatch makes at most max attempts and returns a boolean;
\* it returns true exactly when some attempt among the max is answered with
\* a success and every attempt before it with a transient failure; every
\* attempt but the last one made was answered with a transient failure.
C31_ResultadoDoEnvio ==
    envio.feito
        => LET max == Len(envio.resps)
           IN  /\ envio.tentativas \in 0..max
               /\ envio.ok \in BOOLEAN
               /\ envio.ok <=>
                     \E i \in 1..max :
                         /\ envio.resps[i] \in SUCESSO
                         /\ \A j \in 1..(i - 1) : envio.resps[j] \in FalhasTransitorias
               /\ \A i \in 1..(envio.tentativas - 1) :
                     envio.resps[i] \in FalhasTransitorias

\* a success at the second of three attempts after a transient failure,
\* the third attempt not made
C31_Testemunha ==
    /\ envio.feito
    /\ envio.resps = <<"Timeout", "201", "400">>
    /\ envio.ok
    /\ envio.tentativas = 2

----------------------------------------------------------------------------
(* Minutes and seconds *)

\* two times with the same hour and the same minute
MesmoMinuto(h1, h2) ==
    /\ Len(h1) >= 2 /\ Len(h2) >= 2
    /\ h1[1] = h2[1] /\ h1[2] = h2[2]

\* C32: with the stored date equal to the snapshot's and the stored time
\* equal to the snapshot's in hour and minute, the two differing in the
\* seconds or in the presence of a seconds field, the snapshot is not
\* classified reschedule.
C32_GranularidadeDeMinuto ==
    [][ ( /\ PassoRegistro
          /\ classificar(ag) = "agendamento"
          /\ linha(ledger, "agendamento").existe
          /\ linha(ledger, "agendamento").data = ag.data
          /\ MesmoMinuto(linha(ledger, "agendamento").hora, ag.hora)
          /\ linha(ledger, "agendamento").hora # ag.hora )
            => ev'.decisao # "reschedule" ]_vars

\* a snapshot at 10:00:30 against the entry written for 10:00, taken for a
\* duplicate
C32_Testemunha ==
    /\ ev.caminho = "agendamento" /\ ev.decisao = "duplicate"
    /\ ag.hora = <<10, 0, 30>>
    /\ linha(ledger, "agendamento").hora = <<10, 0, 0>>
    /\ linha(ledger, "agendamento").data = ag.data

----------------------------------------------------------------------------
(* Rows of other keys *)

ChavesTabela == IdsTabela \X TiposTabela

\* the rows of t under key k
LinhasDe(t, k) == {t[i] : i \in em_conflito(t, k[1], k[2])}

\* C33: a mark or a clear changes the rows of one key at most, every other
\* key keeping its row as it was, so that the entries of one id under its
\* notice types come and go one by one; a mark of a key that has a row
\* leaves the row with the date and time of the call and with the creation
\* time it had, a mark of a key without row creates the row at the time of
\* the statement.
C33_TiposIndependentes ==
    /\ [][ \A k1, k2 \in ChavesTabela :
             ( /\ LinhasDe(tabela', k1) # LinhasDe(tabela, k1)
               /\ LinhasDe(tabela', k2) # LinhasDe(tabela, k2) ) => k1 = k2 ]_vars
    /\ [][ ev'.decisao \in {"insert", "update"} =>
             \E k \in ChavesTabela, data_agenda \in DatasTabela, hora_agenda \in HorasTabela :
                /\ \E r \in LinhasDe(tabela', k) :
                      /\ LinhasDe(tabela', k) = {r}
                      /\ r.data = data_agenda /\ r.hora = para_TIME(hora_agenda)
                      /\ IF ev'.decisao = "update"
                         THEN \E a \in LinhasDe(tabela, k) : r.criado_em = a.criado_em
                         ELSE LinhasDe(tabela, k) = {} /\ r.criado_em = hist'
                /\ \A o \in ChavesTabela \ {k} : LinhasDe(tabela', o) = LinhasDe(tabela, o) ]_vars
    /\ [][ ev'.decisao = "delete" =>
             \E k \in ChavesTabela :
                /\ LinhasDe(tabela', k) = {}
                /\ \A o \in ChavesTabela \ {k} : LinhasDe(tabela', o) = LinhasDe(tabela, o) ]_vars

\* the confirmation row of an id marked again with another date, later than
\* its creation, beside the cancellation row of the same id
C33_Testemunha ==
    /\ ev.decisao = "update"
    /\ \E r \in LinhasDe(tabela, <<AG_ID, "agendamento">>) :
          r.data = 2 /\ r.criado_em < hist
    /\ LinhasDe(tabela, <<AG_ID, "cancelamento">>) # {}

----------------------------------------------------------------------------
(* One driver, several drivers *)

\* a driver leaves its decision: it calls the dispatcher or drops the record
PassoDespacho == \E d \in DOMAIN drv : drv[d].pc = "leu" /\ drv'[d].pc # "leu"

\* C34: with one driver alone, over an unchanged snapshot, the driver
\* decides on the ledger as it is and a notice that was delivered is not
\* delivered again. (With two drivers both can read the entry as absent and
\* both deliver the notice: the state of C34_Testemunha.)
C34_UmDriverSo ==
    [][ (Len(drv) = 1 /\ PassoDespacho)
            => /\ drv[1].visto = ledger
               /\ DespachadoAntes => ~(ev'.chamou /\ ev'.ok) ]_vars

\* two drivers that both read the confirmation entry as absent and both had
\* the confirmation delivered, neither having written yet
C34_Testemunha ==
    /\ Len(drv) = 2
    /\ classificar(ag) = "agendamento"
    /\ \A d \in 1..2 :
          /\ drv[d].pc = "enviou"
          /\ ~is_processed(drv[d].visto, AG_ID, "agendamento")
          /\ processar_registro(drv[d].visto, ag, drv[d].resps).ev.ok
          /\ processar_registro(drv[d].visto, ag, drv[d].resps).ev.template
                = ASPA_TEMPLATE_CONFIRMACAO
    /\ ~is_processed(ledger, AG_ID, "agendamento")

----------------------------------------------------------------------------
(* The test number *)

\* the step handles the record of the tracked appointment in one of the passes
PassoDeUmPasse ==
    ag' = ag /\ ev'.caminho \in {"agendamento", "cancelamento", "lembrete"}

SemEntradas(l) == \A t \in Tipos : ~l[<<AG_ID, t>>].existe

\* C35: in both passes a record whose phone number, reduced to its digits
\* and without a leading 55 when longer than 11 digits, is not the test
\* number is not dispatched and gets no entry; having no entry it is not a
\* duplicate when it is handled; and every dispatcher call is for a record
\* addressed to the test number.
C35_NumeroDeTeste ==
    [][ PassoDeUmPasse =>
          /\ ~numero_de_teste(obter_numero_paciente(ag))
                => /\ ~ev'.chamou
                   /\ ledger' = ledger
                   /\ SemEntradas(ledger)
                         => (ev'.decisao # "duplicate" /\ ev'.parou # "duplicate")
          /\ ev'.chamou => numero_de_teste(obter_numero_paciente(ag)) ]_vars

\* a reminder in its window, held back because the number is another one
C35_Testemunha ==
    /\ ev.caminho = "lembrete"
    /\ ev.decisao = "lembrete_padrao"
    /\ ev.parou = "teste"
    /\ ag.telefone = <<"1","1","9","8","7","6","5","4","3","2","1">>
    /\ SemEntradas(ledger)

----------------------------------------------------------------------------
\* C36: an exception raised while one record is handled, by the dispatcher
\* or by the ledger write after a true return, affects only that record: on
\* the cancellation path as on the confirmation path the records that
\* follow it in the page are handled in the same pass, so that the loop over
\* a page ends only once every record of the page was handled.
C36_IsolamentoPorRegistro ==
    lista.fase = "fim" => lista.pos = lista.n

----------------------------------------------------------------------------
----------------------------------------------------------------------------
\* the confirmation entry exists and its stored date or its stored time is unset
SemDataOuHora(l) ==
    /\ l[<<AG_ID, "agendamento">>].existe
    /\ \/ l[<<AG_ID, "agendamento">>].data = NULO
       \/ l[<<AG_ID, "agendamento">>].hora = HORA_NULA

\* C37: while the confirmation entry of the id lacks its stored date or its
\* stored time, no snapshot of the id is classified reschedule, whatever
\* its date and time; unless the type changed or a cancellation entry
\* exists, the snapshot is classified duplicate and the entry is left as it
\* was, its date and time unset.
C37_SemDataSemReagendamento ==
    [][ (PassoAgendamento /\ SemDataOuHora(ledger))
            => /\ ev'.decisao # "reschedule"
               /\ (~TipoDifere(ledger, ag) /\ ~is_processed(ledger, AG_ID, "cancelamento"))
                     => /\ ev'.decisao = "duplicate"
                        /\ ~ev'.chamou
                        /\ ledger' = ledger ]_vars

\* a snapshot moved to another day and another time was classified
\* duplicate against an entry holding a time and no date
C37_Testemunha ==
    /\ ev.caminho = "agendamento" /\ ev.decisao = "duplicate"
    /\ ledger[<<AG_ID, "agendamento">>].existe
    /\ ledger[<<AG_ID, "agendamento">>].data = NULO
    /\ ledger[<<AG_ID, "agendamento">>].hora = <<10, 0, 0>>
    /\ ag.data = 2 /\ ag.hora = <<10, 30>>

----------------------------------------------------------------------------
\* the step handles the tracked appointment on the cancellation path
PassoNoCancelamento == PassoRegistro /\ ev'.caminho = "cancelamento"

\* the step handles a confirmation candidate whose id has a confirmation
\* entry and a cancellation entry
PassoAposCancelamento ==
    /\ PassoAgendamento
    /\ linha(ledger, "agendamento").existe
    /\ linha(ledger, "cancelamento").existe

\* C39 as stated: handling a cancellation candidate, whatever its outcome,
\* never creates, changes or deletes the confirmation entry of the id, so
\* that a confirmation snapshot handled after a recorded cancellation is
\* compared against the entry as it stood before: it is never new, it is a
\* reactivation when its date and HH:MM are the stored ones and a
\* reschedule when they are not.
C39_EntradaIntocada ==
    [][ /\ PassoNoCancelamento
            => linha(ledger', "agendamento") = linha(ledger, "agendamento")
        /\ PassoAposCancelamento
            => /\ ev'.decisao # "new"
               /\ MesmaDataHora(ledger, ag) => ev'.decisao = "reactivation"
               /\ ~MesmaDataHora(ledger, ag) => ev'.decisao = "reschedule" ]_vars

\* C39 amended: as above, the snapshot whose date and HH:MM are the stored
\* ones being a reactivation when its consultation type did not change and a
\* retype when the stored type and its own are both set and differ.
C39_EntradaIntocadaComTipo ==
    [][ /\ PassoNoCancelamento
            => linha(ledger', "agendamento") = linha(ledger, "agendamento")
        /\ PassoAposCancelamento
            => /\ ev'.decisao # "new"
               /\ (MesmaDataHora(ledger, ag) /\ ~TipoDifere(ledger, ag))
                     => ev'.decisao = "reactivation"
               /\ (MesmaDataHora(ledger, ag) /\ TipoDifere(ledger, ag))
                     => ev'.decisao = "retype"
               /\ ~MesmaDataHora(ledger, ag) => ev'.decisao = "reschedule" ]_vars

\* a cancellation notice was delivered and recorded for an appointment whose
\* confirmation had been delivered, the confirmation entry still holding
\* what was delivered
C39_Testemunha ==
    /\ ev.caminho = "cancelamento" /\ ev.chamou /\ ev.ok
    /\ linha(ledger, "cancelamento").existe
    /\ linha(ledger, "agendamento").existe
    /\ linha(ledger, "agendamento").data = entregue.data
    /\ linha(ledger, "agendamento").hora = para_TIME(entregue.hora)
    /\ linha(ledger, "agendamento").tc = entregue.tc
    /\ entregue.existe /\ entregue.data = 1

----------------------------------------------------------------------------
\* the configurations with a template name among those whose procedure
\* predicate matches a and whose window holds the lead
CasamComModelo(a, lead) ==
    {i \in Casam(a, lead) : lembrete_configs[i].nome \in modelos}

\* C38: a reminder configuration whose template name is unset is never
\* selected, even when its predicate and its window match, and the
\* selection goes on to the next configuration in order: the reminder
\* chosen for a confirmed snapshot with a lead to come is the first
\* configuration with a template name that matches, none when there is no
\* such configuration; and with no reminder template set at all the
\* reminder pass requests no page, dispatches nothing and writes nothing.
C38_SemModeloNaoSeleciona ==
    [][ /\ (PassoLembreteConfirmado /\ ev'.lead > 0) =>
              /\ ev'.decisao \in Lembretes => ev'.decisao \in modelos
              /\ \A i \in CasamComModelo(ag, ev'.lead) :
                    (\A j \in CasamComModelo(ag, ev'.lead) : i <= j)
                        => ev'.decisao = lembrete_configs[i].nome
              /\ CasamComModelo(ag, ev'.lead) = {}
                    => (ev'.decisao = "" /\ ~ev'.chamou /\ ledger' = ledger)
        /\ modelos = {} =>
              /\ pag'.pedidos = <<>>
              /\ ~ev'.chamou
              /\ ledger' = ledger ]_vars

\* with the USG template unset, an abdominal USG appointment 23h ahead got
\* the catch-all reminder
C38_Testemunha ==
    /\ "lembrete_usg" \notin modelos
    /\ eh_usg_abdomen(ag)
    /\ ev.caminho = "lembrete" /\ ev.lead = 1380
    /\ ev.decisao = "lembrete_padrao"
    /\ ev.chamou /\ ev.ok
    /\ is_processed(ledger, AG_ID, "lembrete_padrao")
    /\ ~is_processed(ledger, AG_ID, "lembrete_usg")

====
